---------------------------- MODULE Spec2Model ----------------------------
(***************************************************************************)
(* A model of monitoring/openclaw_tui.py: the log line parser, the log     *)
(* tailer thread, the bounded event queue, the DataLayer that the          *)
(* dashboard polls, the status, credential and gateway readers, and the    *)
(* dashboard's switch-model, restart and clear-cooldown dialogs.           *)
(*                                                                         *)
(* Strings the code takes apart are sequences: a subsystem or a model id   *)
(* is the sequence of its "/"-separated segments, a timestamp or an API    *)
(* key is the sequence of its characters.  Strings the code only compares  *)
(* or passes on are TLA+ strings.  A JSON value that is absent from its    *)
(* object is Absent; a JSON value of a type the code does not expect is    *)
(* a record [t |-> <type>, v |-> <value>].                                 *)
(***************************************************************************)
EXTENDS Integers, Sequences, FiniteSets, TLC

\* ------------------------------------------------------------------ bounds

\* Capacity of the event queue.  The source constructs it with maxsize=500;
\* the model is parametric in the capacity and takes this smaller one.
maxsize == 2

\* Lines the gateway appends to its log files in one run of the model.
MaxLines == 3

\* Calendar days a run of the model spans (day 1 is the day of construction).
MaxDay == 2

\* The longest fallback list parse_model_status is applied to.
MaxFallbacks == 2

\* The longest API key read_auth_profiles is applied to, in characters.
MaxKeyLen == 9

\* The most lines of health output fetch_gateway_status is applied to.
MaxHealthLines == 2

\* The longest filter text typed into the switch-model dialog.
MaxFilter == 2

\* ----------------------------------------------------------------- helpers

Absent == [t |-> "absent"]
None == [t |-> "None"]

Min(a, b) == IF a <= b THEN a ELSE b
Max(a, b) == IF a >= b THEN a ELSE b

\* s[:n]
Take(s, n) == SubSeq(s, 1, Min(n, Len(s)))

\* A JSON string value, a JSON number and JSON null.
Str(v) == [t |-> "str", v |-> v]
Num(v) == [t |-> "num", v |-> v]
Null == [t |-> "null"]

\* --------------------------------------------------------- _parse_log_line

\* str.upper() on the level names the model's lines carry.
Upper(s) ==
  CASE s = "info" -> "INFO"
    [] s = "error" -> "ERROR"
    [] s = "Error" -> "ERROR"
    [] s = "warn" -> "WARN"
    [] OTHER -> s

\* json.dumps of a message that is not a string.
JsonDumps(m) ==
  CASE m.t = "null" -> <<"null">>
    [] m.t = "num" -> <<"num", m.v>>
    [] OTHER -> <<"?">>

\* s.removeprefix("gateway/") on a string given by its "/"-separated segments:
\* the prefix is there when the first segment is "gateway" and a "/" follows.
RemovePrefixGateway(segs) ==
  IF Len(segs) >= 2 /\ segs[1] = "gateway" THEN Tail(segs) ELSE segs

\* s.replace("T", " ") on a string given by its characters.
ReplaceT(chars) == [i \in DOMAIN chars |-> IF chars[i] = "T" THEN " " ELSE chars[i]]

LOG_IMPORTANT_SUBSYSTEMS ==
  {<<"model">>, <<"ratelimit">>, <<"fallback">>, <<"error">>, <<"gateway", "reload">>}

\* A log line is what json.loads makes of it (a message is a sequence of
\* words, <<>> the empty string):
\*   [kind |-> "empty"], [kind |-> "text"]    json.loads raises
\*   [kind |-> "json", v |-> Num(..)]         valid JSON, not an object
\*   [kind |-> "object", meta, msg, time]      an object; msg is its field "1"
\* meta is Absent, Null or [t |-> "dict", name, level]; a name is
\* [t, s, js]: its type, str(name) as segments, and the object the code
\* decodes it to (json.loads(name) for a string, [t |-> "err"] when that
\* raises; the name itself otherwise).

\* subsystem = name_obj.get("subsystem", "unknown").removeprefix("gateway/"),
\* str(name_raw) when any of it raises (source lines 255-260).
SubsystemOf(meta) ==
  LET name_raw == IF meta.name = Absent
                  THEN [t |-> "str", s |-> <<"{}">>, js |-> [t |-> "dict", subsystem |-> Absent]]
                  ELSE meta.name
      name_obj == name_raw.js
  IN  IF name_obj.t # "dict" THEN name_raw.s
      ELSE IF name_obj.subsystem = Absent THEN <<"unknown">>
      ELSE IF name_obj.subsystem.t # "str" THEN name_raw.s
      ELSE RemovePrefixGateway(name_obj.subsystem.v)

\* "important": subsystem in LOG_IMPORTANT_SUBSYSTEMS or level == "ERROR" (line 272).
important(subsystem, level) ==
  subsystem \in LOG_IMPORTANT_SUBSYSTEMS \/ level = "ERROR"

_parse_log_line(raw_line) ==
  IF raw_line.kind # "object" THEN None            \* json.loads or obj.get raises
  ELSE
    LET obj == raw_line
        meta == IF obj.meta = Absent
                THEN [t |-> "dict", name |-> Absent, level |-> Absent]
                ELSE obj.meta
    IN  IF meta.t # "dict" THEN None                \* meta.get raises
        ELSE IF meta.level # Absent /\ meta.level.t # "str" THEN None   \* .upper() raises
        ELSE IF obj.time # Absent /\ obj.time.t # "str" THEN None       \* [:19] raises
        ELSE
          LET subsystem == SubsystemOf(meta)
              msg == IF obj.msg = Absent THEN <<>>
                     ELSE IF obj.msg.t = "str" THEN obj.msg.v
                     ELSE JsonDumps(obj.msg)
              level == IF meta.level = Absent THEN "INFO" ELSE Upper(meta.level.v)
              ts == IF obj.time = Absent THEN <<>> ELSE ReplaceT(Take(obj.time.v, 19))
          IN  [t |-> "event",
               time |-> ts,
               subsystem |-> subsystem,
               message |-> msg,
               level |-> level,
               important |-> important(subsystem, level)]

\* ---- the lines _parse_log_line is applied to

IsoTime ==
  <<"2", "0", "2", "6", "-", "0", "2", "-", "1", "2", "T",
    "1", "0", ":", "1", "5", ":", "3", "0", ".", "1", "2", "3", "Z">>

Subsystems ==
  {<<"model">>, <<"ratelimit">>, <<"fallback">>, <<"error">>, <<"reload">>,
   <<"agent">>, <<"gateway">>, <<"gateway", "reload">>, <<"gateway", "model">>,
   <<"gateway", "agent">>, <<"gateway", "gateway", "reload">>}

\* name = json.dumps({"subsystem": s}): the usual encoding.
EncodedName(sub) ==
  [t |-> "str", s |-> <<"{subsystem}">>, js |-> [t |-> "dict", subsystem |-> sub]]

Names ==
  {Absent}
  \cup {EncodedName(Str(s)) : s \in Subsystems}
  \cup {EncodedName(Absent), EncodedName(Num(5))}
  \cup {[t |-> "str", s |-> s, js |-> [t |-> "err"]] : s \in {<<"gateway", "reload">>, <<"model">>}}
  \cup {[t |-> "str", s |-> <<"5">>, js |-> Num(5)]}
  \cup {[t |-> "dict", s |-> <<"{dict}">>, js |-> [t |-> "dict", subsystem |-> Str(<<"gateway", "reload">>)]]}
  \cup {[t |-> "num", s |-> <<"5">>, js |-> Num(5)]}

Levels == {Absent, Str("info"), Str("INFO"), Str("error"), Str("ERROR"), Str("WARN"), Num(3)}

Metas == {Absent, Null} \cup {[t |-> "dict", name |-> n, level |-> l] : n \in Names, l \in Levels}

Messages == {Absent, Str(<<"hello">>), Num(7)}

Times == {Absent, Str(IsoTime), Num(0)}

Lines ==
  {[kind |-> "empty"], [kind |-> "text"], [kind |-> "json", v |-> Num(5)]}
  \cup {[kind |-> "object", meta |-> m, msg |-> g, time |-> c] :
           m \in Metas, g \in Messages, c \in Times}

\* ------------------------------------------------------ parse_model_status

\* A Python exception leaving a function.
Raise == [t |-> "raise"]

\* A model id "provider/model" is the sequence of its "/"-separated segments,
\* each segment the sequence of its "-"-separated tokens:
\* "google-gemini-cli/gemini-3-flash" is
\* << <<"google", "gemini", "cli">>, <<"gemini", "3", "flash">> >>.
EmptyString == << <<"">> >>

\* s.removeprefix("google-") on a segment.
RemovePrefixGoogle(seg) ==
  IF Len(seg) >= 2 /\ seg[1] = "google" THEN Tail(seg) ELSE seg

_shorten(model_id) ==
  IF Len(model_id) = 2
  THEN <<RemovePrefixGoogle(model_id[1]), model_id[2]>>
  ELSE model_id

\* An inverse mapping that keeps the first alias of a model.
AliasOf_mut(items, model) ==
  IF \E i \in DOMAIN items : items[i][2] = model
  THEN LET first == CHOOSE i \in DOMAIN items :
                      /\ items[i][2] = model
                      /\ \A j \in 1..(i - 1) : items[j][2] # model
       IN  Str(items[first][1])
  ELSE None

\* {v: k for k, v in aliases.items()}.get(model): aliases is the sequence of
\* its (alias, model) items; a later item replaces an earlier one that names
\* the same model.
RECURSIVE AliasOf(_, _)
AliasOf(items, model) ==
  IF items = <<>> THEN None
  ELSE LET last == items[Len(items)]
       IN  IF last[2] = model THEN Str(last[1])
           ELSE AliasOf(SubSeq(items, 1, Len(items) - 1), model)

\* An ordinal that counts from the default model.
Ordinal_mut(i) == <<"#", i + 1>>

\* f"#{i}"
Ordinal(i) == <<"#", i>>

\* A status document raw is a record
\*   [defaultModel, fallbacks, aliases, oauth]
\* defaultModel: Absent, Str(model id) or a value of another type;
\* fallbacks: Absent, [t |-> "list", v |-> sequence of JSON values] or another type;
\* aliases: Absent, [t |-> "dict", v |-> items] or another type;
\* oauth (auth.oauth.profiles): Absent or [t |-> "list", v |-> profile records].
RotationEntry(model, i, alias_items) ==
  [model |-> model,
   label |-> _shorten(model),
   status |-> IF i = 0 THEN <<"ACTIVE">> ELSE Ordinal(i),
   position |-> i,
   alias |-> AliasOf(alias_items, model)]

\* A summary whose remaining time defaults to the expiry time.
OAuthSummary_mut(p) ==
  [profile_id |-> IF p.profileId = Absent THEN "" ELSE p.profileId.v,
   provider |-> IF p.provider = Absent THEN "" ELSE p.provider.v,
   status |-> IF p.status = Absent THEN "" ELSE p.status.v,
   expires_at |-> IF p.expiresAt = Absent THEN None ELSE p.expiresAt,
   remaining_ms |-> IF p.remainingMs = Absent THEN p.expiresAt ELSE p.remainingMs]

\* One entry of oauth_profiles (lines 179-185).
OAuthSummary(p) ==
  [profile_id |-> IF p.profileId = Absent THEN "" ELSE p.profileId.v,
   provider |-> IF p.provider = Absent THEN "" ELSE p.provider.v,
   status |-> IF p.status = Absent THEN "" ELSE p.status.v,
   expires_at |-> IF p.expiresAt = Absent THEN None ELSE p.expiresAt,
   remaining_ms |-> IF p.remainingMs = Absent THEN Num(0) ELSE p.remainingMs]

\* A loop over the fallbacks alone.
RotationModels_mut(default, fallbacks) == fallbacks

\* [default] + fallbacks (line 164)
RotationModels(default, fallbacks) == <<Str(default)>> \o fallbacks

parse_model_status(raw) ==
  IF raw.defaultModel # Absent /\ raw.defaultModel.t # "str" THEN Raise  \* _shorten raises
  ELSE IF raw.fallbacks # Absent /\ raw.fallbacks.t # "list" THEN Raise  \* [default] + fallbacks
  ELSE IF raw.aliases # Absent /\ raw.aliases.t # "dict" THEN Raise      \* .items()
  ELSE IF raw.oauth # Absent /\ raw.oauth.t # "list" THEN Raise
  ELSE
    LET default == IF raw.defaultModel = Absent THEN EmptyString ELSE raw.defaultModel.v
        fallbacks == IF raw.fallbacks = Absent THEN <<>> ELSE raw.fallbacks.v
        alias_items == IF raw.aliases = Absent THEN <<>> ELSE raw.aliases.v
        oauth == IF raw.oauth = Absent THEN <<>> ELSE raw.oauth.v
        models == RotationModels(default, fallbacks)
    IN  IF \E i \in DOMAIN models : models[i].t # "str" THEN Raise       \* _shorten raises
        ELSE [t |-> "status",
              default |-> default,
              rotation |-> [i \in DOMAIN models |->
                              RotationEntry(models[i].v, i - 1, alias_items)],
              oauth_profiles |-> [i \in DOMAIN oauth |-> OAuthSummary(oauth[i])],
              aliases |-> alias_items,
              raw |-> raw]

\* ------------------------------------------------------- fetch_model_status

\* What `openclaw models status --json` does: [t |-> "raise"] (subprocess.run
\* raises: the 8 s timeout, the command missing), or
\* [t |-> "stdout", preamble, json]: preamble lines that do not start with
\* "{", then nothing (Absent), or text from the first line starting with "{"
\* that json.loads rejects ([t |-> "badjson"]) or decodes to the document
\* [t |-> "doc", v |-> raw].
fetch_model_status(cli) ==
  IF cli.t = "raise" THEN None
  ELSE IF cli.json = Absent THEN None            \* json_start is None
  ELSE IF cli.json.t = "badjson" THEN None       \* json.loads raises
  ELSE LET parsed == parse_model_status(cli.json.v)
       IN  IF parsed = Raise THEN None ELSE parsed

\* ------------------------------------------------------- read_auth_profiles

\* dict.get(key, default) on a mapping given as the sequence of its
\* (key, value) items.
RECURSIVE ItemsGet(_, _, _)
ItemsGet(items, key, default) ==
  IF items = <<>> THEN default
  ELSE IF items[Len(items)][1] = key THEN items[Len(items)][2]
  ELSE ItemsGet(SubSeq(items, 1, Len(items) - 1), key, default)

\* bool(v) is False: the value is missing (None), null, "" or 0.
Falsy(v) == v \in {Absent, Null, Str(<<>>), Num(0)}

NoStats == [t |-> "dict", cooldownUntil |-> Absent, errorCount |-> Absent, lastUsed |-> Absent]

Ellipsis == <<".", ".", ".">>

\* A cooldown that still holds at the instant it ends.
InCooldown_mut(cooldown_until, now_ms) == cooldown_until >= now_ms

\* in_cooldown = cooldown_until > now_ms (line 211)
InCooldown(cooldown_until, now_ms) == cooldown_until > now_ms

\* A profile without type taken for an API-key profile.
AuthType_mut(pdata) == IF pdata.type = Absent THEN "apiKey" ELSE pdata.type.v

\* pdata.get("type", "unknown") (line 217)
AuthType(pdata) == IF pdata.type = Absent THEN "unknown" ELSE pdata.type.v

\* One entry of the result (source lines 209-225); Raise when the entry has a
\* shape the code does not expect.  A profile id "provider:account" is the
\* sequence of its ":"-separated segments; an API key is the sequence of its
\* characters.
ProfileEntry(pid, pdata, usage, now_ms) ==
  LET stats == ItemsGet(usage, pid, NoStats)
  IN  IF pdata.t # "dict" \/ stats.t # "dict" THEN Raise
      ELSE IF stats.cooldownUntil # Absent /\ stats.cooldownUntil.t # "num" THEN Raise
      ELSE IF ~Falsy(pdata.apiKey) /\ pdata.apiKey.t # "str" THEN Raise   \* [:8] + "..."
      ELSE
        LET cooldown_until == IF stats.cooldownUntil = Absent THEN 0
                              ELSE stats.cooldownUntil.v
            in_cooldown == InCooldown(cooldown_until, now_ms)
        IN  [profile_id |-> pid,
             provider |-> IF pdata.provider = Absent THEN pid[1] ELSE pdata.provider.v,
             auth_type |-> AuthType(pdata),
             email |-> IF pdata.email = Absent THEN None ELSE pdata.email,
             api_key |-> IF Falsy(pdata.apiKey) THEN None
                         ELSE Str(Take(pdata.apiKey.v, 8) \o Ellipsis),
             expires_ms |-> IF pdata.expires = Absent THEN None ELSE pdata.expires,
             in_cooldown |-> in_cooldown,
             cooldown_remaining_ms |-> IF in_cooldown
                                       THEN Max(0, cooldown_until - now_ms)
                                       ELSE 0,
             error_count |-> IF stats.errorCount = Absent THEN Num(0) ELSE stats.errorCount,
             last_used_ms |-> IF stats.lastUsed = Absent THEN None ELSE stats.lastUsed]

\* The credential store file is [t |-> "missing"] (read_text raises),
\* [t |-> "notjson"] (json.loads raises) or
\* [t |-> "doc", profiles, usageStats], both Absent, [t |-> "dict", v |-> items]
\* or a value of another type.  The result is a sequence of entries, or Raise.
read_auth_profiles(file, now_ms) ==
  IF file.t \in {"missing", "notjson"} THEN <<>>
  ELSE IF file.t # "doc" THEN Raise                                    \* raw.get
  ELSE IF file.profiles # Absent /\ file.profiles.t # "dict" THEN Raise  \* .items()
  ELSE
    LET profiles_raw == IF file.profiles = Absent THEN <<>> ELSE file.profiles.v
    IN  IF profiles_raw = <<>> THEN <<>>
        ELSE IF file.usageStats # Absent /\ file.usageStats.t # "dict" THEN Raise  \* usage.get
        ELSE
          LET usage == IF file.usageStats = Absent THEN <<>> ELSE file.usageStats.v
              entries == [i \in DOMAIN profiles_raw |->
                            ProfileEntry(profiles_raw[i][1], profiles_raw[i][2], usage, now_ms)]
          IN  IF \E i \in DOMAIN entries : entries[i] = Raise THEN Raise
              ELSE entries

\* ----------------------------------------------------- fetch_gateway_status

\* A line of the health command's output is what the loop of lines 479-492
\* looks at:
\*   pidword: "PID" or "pid" occurs in the line;
\*   digits:  the first run of four or more digits (Absent: there is none);
\*   session: "Session store" occurs in the line;
\*   entries: the number in "(<n> entries)" (Absent: no such text);
\*   agents:  the line, stripped, starts with "Agents:" and
\*            the text after the colon has this many commas (Absent otherwise).
ApplyLine(result, line) ==
  IF line.pidword
  THEN IF line.digits # Absent THEN [result EXCEPT !.pid = line.digits] ELSE result
  ELSE IF line.session
  THEN IF line.entries # Absent THEN [result EXCEPT !.sessions = line.entries] ELSE result
  ELSE IF line.agents # Absent
  THEN [result EXCEPT !.agents = Num(line.agents.v + 1)]    \* len(agents.split(","))
  ELSE result

RECURSIVE ApplyLines(_, _)
ApplyLines(result, lines) ==
  IF lines = <<>> THEN result
  ELSE ApplyLines(ApplyLine(result, Head(lines)), Tail(lines))

\* str.strip() on a sequence of characters.
RECURSIVE Strip(_)
Strip(chars) ==
  IF chars = <<>> THEN chars
  ELSE IF Head(chars) \in {" ", "\n"} THEN Strip(Tail(chars))
  ELSE IF chars[Len(chars)] \in {" ", "\n"} THEN Strip(SubSeq(chars, 1, Len(chars) - 1))
  ELSE chars

\* A failure of the version command that is not turned into the sentinel.
fetch_gateway_status_mut(health, version) ==
  IF health.t = "raise"
  THEN [gateway |-> "ERR", pid |-> Str("?"), sessions |-> Str("?"), agents |-> Str("?"),
        version |-> Str("?")]
  ELSE ApplyLines([gateway |-> "RUN", pid |-> Absent, sessions |-> Absent,
                   agents |-> Absent, version |-> Absent], health.lines)

\* fetch_gateway_status (lines 473-497).  health and version are what the
\* two commands do: [t |-> "raise"] (subprocess.run raises: timeout, command
\* missing) or [t |-> "done", returncode, lines] and [t |-> "done", stdout].
\* A key the result does not have is Absent.
fetch_gateway_status(health, version) ==
  IF health.t = "raise" \/ version.t = "raise"
  THEN [gateway |-> "ERR", pid |-> Str("?"), sessions |-> Str("?"), agents |-> Str("?"),
        version |-> Str("?")]
  ELSE [ApplyLines([gateway |-> "RUN", pid |-> Absent, sessions |-> Absent,
                    agents |-> Absent, version |-> Absent], health.lines)
          EXCEPT !.version = Str(Take(Strip(version.stdout), 20))]

\* ------------------------------------------------------------- queue.Queue

\* queue.Queue(maxsize): put blocks while full() holds; get_nowait takes the
\* oldest item.
\* A queue that is never full.
full_mut(queue) == FALSE

full(queue) == Len(queue) >= maxsize

\* A test that takes a queue of one item for empty.
empty_mut(queue) == Len(queue) <= 1

empty(queue) == queue = <<>>

put(queue, item) == Append(queue, item)

\* A get that takes the newest item.
get_nowait_mut(queue) ==
  [item |-> queue[Len(queue)], rest |-> SubSeq(queue, 1, Len(queue) - 1)]

get_nowait(queue) == [item |-> Head(queue), rest |-> Tail(queue)]

\* ------------------------------------------------------------------- state

VARIABLES
  today,       \* the calendar date (a day number): what log_path() names
  created,     \* the days whose log file exists
  logs,        \* logs[d]: the lines of day d's log file
  authFile,    \* the credential store file auth-profiles.json
  q,           \* DataLayer._log_queue
  stop,        \* LogTailer._stop
  tpc,         \* where the tailer thread is in LogTailer._run
  tpath,       \* _run's local path (a day number) until the file is open
  tfile,       \* the day whose file _run holds open (0: none)
  tpos,        \* the read position in that file, in lines
  tparsed,     \* _run's local parsed
  status,      \* DataLayer._status
  profiles,    \* DataLayer._profiles
  crashed,     \* an exception left a handler of the interface thread
  modal,       \* the dialog on top of the dashboard, with what it was given
  dpc,         \* where drain_logs is
  events,      \* drain_logs' local events
  enq,         \* history: every event put into the queue, in order
  drained,     \* history: the results of all drain_logs calls, concatenated
  dq0,         \* history: the queue when the running drain_logs call began
  dconc,       \* history: the tailer put an event during the running call
  dash,        \* the DashboardScreen: verbose mode and the lines of the log pane
  lastFetch,   \* history: how the last refresh's fetch ended
  fetchedOnce, \* history: some refresh's fetch succeeded
  pl_line,     \* the line _parse_log_line is applied to on its own
  pl_result,   \* its result
  pm_raw,      \* the document parse_model_status is applied to on its own
  pm_result,   \* its result
  ra_file,     \* the store read_auth_profiles is applied to on its own
  ra_now,      \* the wall clock (ms) of that read
  ra_result,   \* its result
  gw_health,   \* what `openclaw health` does when fetch_gateway_status runs it
  gw_version,  \* what `openclaw --version` does
  gw_result,   \* the result of fetch_gateway_status
  cfg,         \* the content of openclaw.json
  pv,          \* the ProviderScreen: loaded providers and cursor
  wz,          \* the AddProviderWizard, open or dismissed
  sw           \* the SwitchModelScreen, open or dismissed

envVars == <<today, created, logs, authFile>>
tailerVars == <<stop, tpc, tpath, tfile, tpos, tparsed>>
pollVars == <<status, profiles, crashed, modal, lastFetch, fetchedOnce>>
drainVars == <<dpc, events, drained, dq0, dconc, dash>>
parseVars == <<pl_line, pl_result>>
statusVars == <<pm_raw, pm_result>>
authVars == <<ra_file, ra_now, ra_result>>
gatewayVars == <<gw_health, gw_version, gw_result>>
screenVars == <<cfg, pv, wz, sw>>
pureVars == <<parseVars, statusVars, authVars, gatewayVars, screenVars>>
vars == <<envVars, q, enq, tailerVars, pollVars, drainVars, pureVars>>

Days == 1..MaxDay

Pending == [t |-> "pending"]

NoModal == [t |-> "none"]

\* DataLayer.__init__ (lines 730-734) and LogTailer.__init__ (lines 280-283):
\* an empty queue, a tailer thread that is not started, no status, no profiles.
InitData ==
  /\ q = <<>>
  /\ enq = <<>>
  /\ stop = FALSE
  /\ tpc = "new"
  /\ tpath = 0
  /\ tfile = 0
  /\ tpos = 0
  /\ tparsed = None
  /\ status = [t |-> "empty"]
  /\ profiles = <<>>
  /\ crashed = FALSE
  /\ modal = NoModal
  /\ lastFetch = "none"
  /\ fetchedOnce = FALSE
  /\ dpc = "idle"
  /\ events = <<>>
  /\ drained = <<>>
  /\ dq0 = <<>>
  /\ dconc = FALSE
  /\ dash = [verbose |-> FALSE, pane |-> <<>>]

InitEnv ==
  /\ today = 1
  /\ created = {}
  /\ logs = [d \in Days |-> <<>>]
  /\ authFile = [t |-> "missing"]

\* No call of _parse_log_line, parse_model_status, read_auth_profiles or
\* fetch_gateway_status on its own.
IdleParse == pl_line = [kind |-> "empty"] /\ pl_result = Pending
IdleStatus == pm_raw = Absent /\ pm_result = Pending
IdleAuth == ra_file = [t |-> "missing"] /\ ra_now = 0 /\ ra_result = Pending
IdleGateway == gw_health = Absent /\ gw_version = Absent /\ gw_result = Pending

\* AddProviderWizard.__init__ (lines 1002-1009), not yet pushed: step, chosen
\* type, the two cursors and the form, with the calls of _write_new_provider
\* made so far, the login thread, the value it was dismissed with and the
\* calls of dismiss made on it.
NoWizard ==
  [open |-> FALSE, step |-> 1, type |-> "none", type_cursor |-> 0, confirm_cursor |-> 0,
   form |-> [name |-> "", url |-> <<>>, key |-> ""], writes |-> 0, thread |-> "none",
   result |-> "none", dismissals |-> 0]

\* No provider screen, no wizard and no switch-model dialog.
IdleScreens ==
  /\ cfg = [t |-> "unreadable"]
  /\ pv = [providers |-> <<>>, cursor |-> 0]
  /\ wz = NoWizard
  /\ sw = NoModal

Init ==
  /\ InitEnv
  /\ InitData
  /\ IdleParse
  /\ IdleStatus
  /\ IdleAuth
  /\ IdleGateway
  /\ IdleScreens

\* -------------------------------------------------------------- accessors

\* DataLayer.rotation, DataLayer.default_model (lines 749-759)
rotation == IF status.t = "empty" THEN <<>> ELSE status.rotation
default_model == IF status.t = "empty" THEN EmptyString ELSE status.default

\* ------------------------------------------------------------ environment

\* The n-th line the gateway writes: an event of subsystem gateway/model
\* whose message names n, or text that is not JSON.
EventLine(n) ==
  [kind |-> "object",
   meta |-> [t |-> "dict", name |-> EncodedName(Str(<<"gateway", "model">>)),
             level |-> Str("info")],
   msg |-> Str(<<"line", n>>),
   time |-> Str(IsoTime)]

NoiseLine == [kind |-> "text"]

Written == LET RECURSIVE Sum(_)
               Sum(d) == IF d = 0 THEN 0 ELSE Len(logs[d]) + Sum(d - 1)
           IN  Sum(MaxDay)

\* The gateway creates today's log file.
CreateLog ==
  /\ today \notin created
  /\ created' = created \cup {today}
  /\ UNCHANGED <<today, logs, authFile, q, enq, tailerVars, pollVars, drainVars, pureVars>>

\* The gateway appends a line to today's log file.
AppendLine ==
  /\ today \in created
  /\ Written < MaxLines
  /\ \E line \in {EventLine(Written + 1), NoiseLine} :
       logs' = [logs EXCEPT ![today] = Append(@, line)]
  /\ UNCHANGED <<today, created, authFile, q, enq, tailerVars, pollVars, drainVars, pureVars>>

\* Midnight: log_path() names the next day's file from now on.
DateChange ==
  /\ today < MaxDay
  /\ today' = today + 1
  /\ UNCHANGED <<created, logs, authFile, q, enq, tailerVars, pollVars, drainVars, pureVars>>

\* ----------------------------------------------------------- LogTailer._run

tailerFrame == <<envVars, pollVars, pureVars>>

\* DataLayer.start() (line 737): the thread enters _run.
TailerStart ==
  /\ tpc = "new"
  /\ ~crashed
  /\ tpc' = "loop"
  /\ UNCHANGED <<stop, tpath, tfile, tpos, tparsed, q, enq, drainVars, tailerFrame>>

\* Lines 292-296: the outer loop's test, path = log_path(), path.exists().
TailerLoop ==
  /\ tpc = "loop"
  /\ IF stop THEN tpc' = "done" /\ tpath' = 0
     ELSE IF today \in created THEN tpc' = "open" /\ tpath' = today
     ELSE tpc' = "wait_file" /\ tpath' = 0
  /\ UNCHANGED <<stop, tfile, tpos, tparsed, q, enq, drainVars, tailerFrame>>

\* Line 295: self._stop.wait(2) returns, by its timeout or because stop is set.
TailerWaitFile ==
  /\ tpc = "wait_file"
  /\ tpc' = "loop"
  /\ UNCHANGED <<stop, tpath, tfile, tpos, tparsed, q, enq, drainVars, tailerFrame>>

\* An open that reads the file from its beginning.
TailerOpen_mut ==
  /\ tpc = "open"
  /\ tpath \in created
  /\ tfile' = tpath
  /\ tpos' = 0
  /\ tpath' = 0
  /\ tpc' = "inner"
  /\ UNCHANGED <<stop, tparsed, q, enq, drainVars, tailerFrame>>

\* Lines 298-299: open(path), f.seek(0, 2).
TailerOpen ==
  /\ tpc = "open"
  /\ tpath \in created
  /\ tfile' = tpath
  /\ tpos' = Len(logs[tpath])
  /\ tpath' = 0
  /\ tpc' = "inner"
  /\ UNCHANGED <<stop, tparsed, q, enq, drainVars, tailerFrame>>

\* Line 300: the inner loop's test; when stop is set the with block closes
\* the file and the outer loop tests again.
TailerInner ==
  /\ tpc = "inner"
  /\ IF stop
     THEN tpc' = "loop" /\ tfile' = 0 /\ tpos' = 0
     ELSE tpc' = "read" /\ UNCHANGED <<tfile, tpos>>
  /\ UNCHANGED <<stop, tpath, tparsed, q, enq, drainVars, tailerFrame>>

\* Lines 301-304, 306: f.readline(), _parse_log_line(line.strip()).
TailerRead ==
  /\ tpc = "read"
  /\ IF tpos < Len(logs[tfile])
     THEN LET parsed == _parse_log_line(logs[tfile][tpos + 1])
          IN  /\ tpos' = tpos + 1
              /\ IF parsed # None
                 THEN tpc' = "put" /\ tparsed' = parsed
                 ELSE tpc' = "inner" /\ tparsed' = tparsed
     ELSE tpc' = "wait_data" /\ UNCHANGED <<tpos, tparsed>>
  /\ UNCHANGED <<stop, tpath, tfile, q, enq, drainVars, tailerFrame>>

\* A put that also drops the held model snapshot.
TailerPut_mut ==
  /\ tpc = "put"
  /\ ~full(q)
  /\ q' = put(q, tparsed)
  /\ enq' = Append(enq, tparsed)
  /\ dconc' = (dconc \/ dpc # "idle")
  /\ tparsed' = None
  /\ tpc' = "inner"
  /\ status' = [t |-> "empty"]
  /\ UNCHANGED <<stop, tpath, tfile, tpos, dpc, events, drained, dq0, dash, envVars, pureVars,
                 profiles, crashed, modal, lastFetch, fetchedOnce>>

\* Line 305: self._q.put(parsed), which waits while the queue is full.
TailerPut ==
  /\ tpc = "put"
  /\ ~full(q)
  /\ q' = put(q, tparsed)
  /\ enq' = Append(enq, tparsed)
  /\ dconc' = (dconc \/ dpc # "idle")
  /\ tparsed' = None
  /\ tpc' = "inner"
  /\ UNCHANGED <<stop, tpath, tfile, tpos, dpc, events, drained, dq0, dash, tailerFrame>>

\* Line 307: self._stop.wait(0.2) returns.
TailerWaitData ==
  /\ tpc = "wait_data"
  /\ tpc' = "inner"
  /\ UNCHANGED <<stop, tpath, tfile, tpos, tparsed, q, enq, drainVars, tailerFrame>>

\* Line 308: open or readline raises; the with block closes the file.
TailerIOError ==
  /\ tpc \in {"open", "read"}
  /\ tpc' = "backoff"
  /\ tpath' = 0
  /\ tfile' = 0
  /\ tpos' = 0
  /\ UNCHANGED <<stop, tparsed, q, enq, drainVars, tailerFrame>>

\* An I/O exception that ends the thread after the backoff.
TailerBackoff_mut ==
  /\ tpc = "backoff"
  /\ tpc' = "done"
  /\ UNCHANGED <<stop, tpath, tfile, tpos, tparsed, q, enq, drainVars, tailerFrame>>

\* Line 309: self._stop.wait(1) returns.
TailerBackoff ==
  /\ tpc = "backoff"
  /\ tpc' = "loop"
  /\ UNCHANGED <<stop, tpath, tfile, tpos, tparsed, q, enq, drainVars, tailerFrame>>

\* The steps the thread takes by itself, once scheduled.
TailerStep ==
  \/ TailerLoop
  \/ TailerWaitFile
  \/ TailerOpen
  \/ TailerInner
  \/ TailerRead
  \/ TailerPut
  \/ TailerWaitData
  \/ TailerBackoff

\* --------------------------------------------------------------- DataLayer

\* DataLayer.stop() (lines 739-740, 288-289)
Stop ==
  /\ ~stop
  /\ dpc = "idle"
  /\ ~crashed
  /\ stop' = TRUE
  /\ UNCHANGED <<tpc, tpath, tfile, tpos, tparsed, q, enq, envVars, pollVars, drainVars, pureVars>>

drainFrame == <<enq, envVars, tailerVars, pollVars, pureVars>>

\* drain_logs is called (line 762).
DrainStart ==
  /\ dpc = "idle"
  /\ ~crashed
  /\ dpc' = "check"
  /\ events' = <<>>
  /\ dq0' = q
  /\ dconc' = FALSE
  /\ UNCHANGED <<q, drained, dash, drainFrame>>

\* A return after which every event is written to the pane.
DrainReturn_mut ==
  /\ dpc' = "idle"
  /\ drained' = drained \o events
  /\ dash' = [dash EXCEPT !.pane = @ \o events]
  /\ events' = <<>>
  /\ dq0' = <<>>
  /\ dconc' = FALSE
  /\ UNCHANGED q

\* Line 768: return events, to DashboardScreen._drain_logs (lines 825-849),
\* the only caller, whose loop writes to the pane each event that is
\* important, or every event in verbose mode, and skips the others.  A line
\* of the pane is kept as the event it was formatted from.
DrainReturn ==
  /\ dpc' = "idle"
  /\ drained' = drained \o events
  /\ dash' = [dash EXCEPT !.pane = @ \o SelectSeq(events, LAMBDA e : dash.verbose \/ e.important)]
  /\ events' = <<>>
  /\ dq0' = <<>>
  /\ dconc' = FALSE
  /\ UNCHANGED q

\* Line 763: while not self._log_queue.empty(); line 768 when it is empty.
DrainCheck ==
  /\ dpc = "check"
  /\ IF empty(q)
     THEN DrainReturn
     ELSE dpc' = "get" /\ UNCHANGED <<q, events, drained, dq0, dconc, dash>>
  /\ UNCHANGED drainFrame

\* Lines 764-767: get_nowait; queue.Empty ends the loop.
DrainGet ==
  /\ dpc = "get"
  /\ IF ~empty(q)
     THEN /\ events' = Append(events, get_nowait(q).item)
          /\ q' = get_nowait(q).rest
          /\ dpc' = "check"
          /\ UNCHANGED <<drained, dq0, dconc, dash>>
     ELSE DrainReturn
  /\ UNCHANGED drainFrame

GeminiFlash == << <<"google", "gemini", "cli">>, <<"gemini", "3", "flash">> >>
GroqLlama == << <<"groq">>, <<"llama", "3.3", "70b", "versatile">> >>

\* Credential stores and wall-clock readings (ms) a refresh may meet.
GroqKey == <<"g", "s", "k", "_", "a", "b", "c">>

AuthDoc(cooldown) ==
  [t |-> "doc",
   profiles |-> [t |-> "dict", v |->
     << << <<"groq", "manual">>,
           [t |-> "dict", type |-> Str("apiKey"), provider |-> Str("groq"),
            apiKey |-> Str(GroqKey), expires |-> Absent, email |-> Absent] >>,
        << <<"google-gemini-cli", "bob">>,
           [t |-> "dict", type |-> Str("oauth"), provider |-> Str("google-gemini-cli"),
            apiKey |-> Absent, expires |-> Num(9000), email |-> Str("bob@example.com")] >> >>],
   usageStats |-> [t |-> "dict", v |->
     << << <<"google-gemini-cli", "bob">>,
           [t |-> "dict", cooldownUntil |-> cooldown, errorCount |-> Num(2),
            lastUsed |-> Num(100)] >> >>]]

\* The store of AuthDoc with an apiKey that is a number.
OddDoc(cooldown) ==
  [AuthDoc(cooldown) EXCEPT !.profiles.v[1][2].apiKey = Num(5)]

AuthFiles ==
  {[t |-> "missing"], [t |-> "notjson"], AuthDoc(Num(6000)), AuthDoc(Num(9000)), AuthDoc(Absent),
   OddDoc(Num(6000))}

Clock == {1000, 7000}

\* What the status command may do at a refresh.
GoodDoc(default, fallbacks) ==
  [t |-> "doc",
   v |-> [defaultModel |-> default,
          fallbacks |-> [t |-> "list", v |-> fallbacks],
          aliases |-> [t |-> "dict", v |-> <<<<"flash", GeminiFlash>>>>],
          oauth |-> Absent]]

StatusOutputs ==
  {[t |-> "raise"],
   [t |-> "stdout", preamble |-> 1, json |-> Absent],
   [t |-> "stdout", preamble |-> 0, json |-> [t |-> "badjson"]],
   [t |-> "stdout", preamble |-> 0, json |-> GoodDoc(Num(5), <<>>)],
   [t |-> "stdout", preamble |-> 1, json |-> GoodDoc(Str(GeminiFlash), <<Str(GroqLlama)>>)],
   [t |-> "stdout", preamble |-> 0, json |-> GoodDoc(Str(GroqLlama), <<>>)],
   [t |-> "stdout", preamble |-> 0, json |-> GoodDoc(Absent, <<Str(GroqLlama), Str(GeminiFlash)>>)]}

\* A refresh that stores whatever the fetch returned.
refresh_mut(cli, now_ms) ==
  LET fetched == fetch_model_status(cli)
      read == read_auth_profiles(authFile', now_ms)
  IN  /\ dpc = "idle"
      /\ ~crashed
      /\ status' = IF fetched # None THEN fetched ELSE [t |-> "empty"]
      /\ lastFetch' = IF fetched # None THEN "ok" ELSE "failed"
      /\ fetchedOnce' = (fetchedOnce \/ fetched # None)
      /\ IF read = Raise
         THEN crashed' = TRUE /\ profiles' = profiles
         ELSE crashed' = FALSE /\ profiles' = read
      /\ UNCHANGED <<q, enq, today, created, logs, tailerVars, drainVars, pureVars>>

\* DataLayer.refresh() (lines 742-747), with the command's outcome and the
\* wall clock as inputs.  It reads the store as the handler that calls it
\* left it (authFile').
refresh(cli, now_ms) ==
  LET fetched == fetch_model_status(cli)
      read == read_auth_profiles(authFile', now_ms)
  IN  /\ dpc = "idle"
      /\ ~crashed
      /\ status' = IF fetched # None THEN fetched ELSE status
      /\ lastFetch' = IF fetched # None THEN "ok" ELSE "failed"
      /\ fetchedOnce' = (fetchedOnce \/ fetched # None)
      /\ IF read = Raise
         THEN crashed' = TRUE /\ profiles' = profiles
         ELSE crashed' = FALSE /\ profiles' = read
      /\ UNCHANGED <<q, enq, today, created, logs, tailerVars, drainVars, pureVars>>

\* DashboardScreen._refresh_data (lines 813-815), every 2 s.
Refresh ==
  /\ UNCHANGED <<authFile, modal>>
  /\ \E cli \in StatusOutputs, now_ms \in Clock : refresh(cli, now_ms)

\* What a handler that does not call refresh() leaves alone.
handlerFrame ==
  <<status, profiles, lastFetch, fetchedOnce, q, enq, envVars, tailerVars, drainVars, pureVars>>

\* An external command run with subprocess.run(..., timeout=...), without
\* check: it ends with exit status 0 ("ok") or another one ("nonzero"), or
\* subprocess.run raises ("raise": TimeoutExpired, the command missing).
CommandOutcomes == {"ok", "nonzero", "raise"}

\* DashboardScreen.action_switch_model (lines 856-863): the dialog is given
\* the rotation held when it opens.
action_switch_model ==
  /\ dpc = "idle"
  /\ ~crashed
  /\ modal = NoModal
  /\ modal' = [t |-> "switch", rotation |-> rotation]
  /\ UNCHANGED <<crashed, handlerFrame>>

\* The dialog is dismissed with None or with the model (a string) of one of
\* its entries, and on_select (lines 857-862) runs `openclaw models set <model>`.
on_select_model(model, cmd, cli, now_ms) ==
  /\ modal.t = "switch"
  /\ model = None \/ \E i \in DOMAIN modal.rotation : model = Str(modal.rotation[i].model)
  /\ modal' = NoModal
  /\ IF model = None \/ model = Str(EmptyString)
     THEN dpc = "idle" /\ UNCHANGED <<crashed, handlerFrame>>
     ELSE IF cmd = "raise"
     THEN dpc = "idle" /\ crashed' = TRUE /\ UNCHANGED handlerFrame
     ELSE UNCHANGED authFile /\ refresh(cli, now_ms)

SwitchModelDismiss ==
  \E model \in {None, Str(EmptyString), Str(GeminiFlash), Str(GroqLlama)}, cmd \in CommandOutcomes,
     cli \in StatusOutputs, now_ms \in Clock :
    on_select_model(model, cmd, cli, now_ms)

\* DashboardScreen.action_restart_gateway (lines 864-871).
action_restart_gateway ==
  /\ dpc = "idle"
  /\ ~crashed
  /\ modal = NoModal
  /\ modal' = [t |-> "restart"]
  /\ UNCHANGED <<crashed, handlerFrame>>

\* on_confirm (lines 865-870) runs `systemctl --user restart`.
on_confirm(confirmed, cmd) ==
  /\ modal.t = "restart"
  /\ dpc = "idle"
  /\ modal' = NoModal
  /\ crashed' = (confirmed /\ cmd = "raise")
  /\ UNCHANGED handlerFrame

RestartDismiss == \E confirmed \in BOOLEAN, cmd \in CommandOutcomes : on_confirm(confirmed, cmd)

\* stats[profile_id].pop("cooldownUntil", None); stats[profile_id]["errorCount"] = 0
ClearedStats(items, profile_id) ==
  [i \in DOMAIN items |->
     IF items[i][1] = profile_id
     THEN <<items[i][1], [items[i][2] EXCEPT !.cooldownUntil = Absent, !.errorCount = Num(0)]>>
     ELSE items[i]]

\* _clear_cooldown_in_file (lines 716-726): the store it leaves.  Every
\* exception (the file missing or not JSON, a shape that has no setdefault,
\* `in`, pop or item assignment, the write refused: io = "fail") leaves the
\* file as it was.
_clear_cooldown_in_file(file, profile_id, io) ==
  IF file.t # "doc" \/ io = "fail" THEN file
  ELSE IF file.usageStats = Absent
  THEN [file EXCEPT !.usageStats = [t |-> "dict", v |-> <<>>]]     \* setdefault
  ELSE IF file.usageStats.t # "dict" THEN file
  ELSE LET items == file.usageStats.v
       IN  IF \E i \in DOMAIN items : items[i][1] = profile_id /\ items[i][2].t # "dict"
           THEN file
           ELSE [file EXCEPT !.usageStats.v = ClearedStats(items, profile_id)]

\* DashboardScreen.action_clear_cooldown (lines 873-879): the dialog is
\* given the held profiles that are in cooldown (line 660).
action_clear_cooldown ==
  /\ dpc = "idle"
  /\ ~crashed
  /\ modal = NoModal
  /\ modal' = [t |-> "clear",
               profiles |-> SelectSeq(profiles, LAMBDA e : e.in_cooldown)]
  /\ UNCHANGED <<crashed, handlerFrame>>

\* The dialog is dismissed with None or with the id (a string) of one of its
\* profiles, and on_select (lines 874-878) clears the cooldown in the store
\* and refreshes.
on_select_profile(profile_id, io, cli, now_ms) ==
  /\ modal.t = "clear"
  /\ profile_id = None
       \/ \E i \in DOMAIN modal.profiles : profile_id = Str(modal.profiles[i].profile_id)
  /\ modal' = NoModal
  /\ IF profile_id = None
     THEN dpc = "idle" /\ UNCHANGED <<crashed, handlerFrame>>
     ELSE /\ authFile' = _clear_cooldown_in_file(authFile, profile_id.v, io)
          /\ refresh(cli, now_ms)

ClearCooldownDismiss ==
  \E profile_id \in {None, Str(<<"groq", "manual">>), Str(<<"google-gemini-cli", "bob">>)},
     io \in {"ok", "fail"}, cli \in StatusOutputs, now_ms \in Clock :
    on_select_profile(profile_id, io, cli, now_ms)

\* Another process (the gateway, the login command) rewrites the store.
StoreWrite ==
  /\ \E f \in AuthFiles \ {authFile} : authFile' = f
  /\ UNCHANGED <<today, created, logs, q, enq, tailerVars, pollVars, drainVars, pureVars>>

\* ---------------------------------------------------------- specifications

\* The tailer thread, the queue and drain_logs, with the gateway writing its
\* log files and the calendar advancing.
Next ==
  \/ CreateLog
  \/ AppendLine
  \/ DateChange
  \/ TailerStart
  \/ TailerStep
  \/ TailerIOError
  \/ Stop
  \/ DrainStart
  \/ DrainCheck
  \/ DrainGet

Spec == Init /\ [][Next]_vars

\* The tailer thread is scheduled again and again, and a drain_logs call
\* that has begun runs on to its return.  Nothing obliges the interface
\* thread to call drain_logs, the gateway to write or a read to fail.
FairSpec == Spec /\ WF_vars(TailerStep) /\ WF_vars(DrainCheck \/ DrainGet)

\* The tailer thread with nobody draining the queue: log files that appear
\* and grow, days that change, opens and reads that fail, and stop().
NextTailer ==
  \/ CreateLog
  \/ AppendLine
  \/ DateChange
  \/ TailerStart
  \/ TailerLoop
  \/ TailerWaitFile
  \/ TailerOpen
  \/ TailerInner
  \/ TailerRead
  \/ TailerPut
  \/ TailerWaitData
  \/ TailerBackoff
  \/ TailerIOError
  \/ Stop

\* The tailer thread is scheduled again and again, and an open that is tried
\* again and again succeeds at some time (I/O errors are transient).
TailerSpec ==
  Init /\ [][NextTailer]_vars /\ WF_vars(TailerStep) /\ SF_vars(TailerOpen)

\* The Data Layer constructed with a credential store in place.
InitStore ==
  /\ InitData
  /\ today = 1
  /\ created = {}
  /\ logs = [d \in Days |-> <<>>]
  /\ authFile = AuthDoc(Num(6000))
  /\ IdleParse
  /\ IdleStatus
  /\ IdleAuth
  /\ IdleGateway
  /\ IdleScreens

\* The Data Layer on one day without I/O errors: the tailer thread, and
\* drain_logs and refresh() called from the interface thread.
NextData ==
  \/ CreateLog
  \/ AppendLine
  \/ TailerStart
  \/ TailerLoop
  \/ TailerWaitFile
  \/ TailerOpen
  \/ TailerInner
  \/ TailerRead
  \/ TailerPut
  \/ TailerWaitData
  \/ Stop
  \/ DrainStart
  \/ DrainCheck
  \/ DrainGet
  \/ Refresh

DataSpec == InitStore /\ [][NextData]_vars

\* The dashboard: refresh() calls and the switch-model, restart and
\* clear-cooldown dialogs, with the credential store rewritten in between.
NextPoll ==
  \/ Refresh
  \/ StoreWrite
  \/ action_switch_model
  \/ SwitchModelDismiss
  \/ action_restart_gateway
  \/ RestartDismiss
  \/ action_clear_cooldown
  \/ ClearCooldownDismiss

PollSpec == Init /\ [][NextPoll]_vars

\* _parse_log_line on its own, applied to every line of Lines.
InitParse ==
  /\ InitEnv
  /\ InitData
  /\ pl_line \in Lines
  /\ pl_result = Pending
  /\ IdleStatus
  /\ IdleAuth
  /\ IdleGateway
  /\ IdleScreens

\* What a call of a function on its own leaves alone.
pureFrame == <<envVars, q, enq, tailerVars, pollVars, drainVars>>

ParseLine ==
  /\ pl_result = Pending
  /\ pl_result' = _parse_log_line(pl_line)
  /\ UNCHANGED <<pl_line, statusVars, authVars, gatewayVars, screenVars, pureFrame>>

ParseSpec == InitParse /\ [][ParseLine]_vars

\* ---- the documents parse_model_status is applied to
OtherModel == << <<"acme">>, <<"big">> >>

ModelValues == {Str(GeminiFlash), Str(GroqLlama), Str(OtherModel)}

RECURSIVE SeqsUpTo(_, _)
SeqsUpTo(S, n) ==
  IF n = 0 THEN {<<>>}
  ELSE LET shorter == SeqsUpTo(S, n - 1)
       IN  shorter \cup {Append(s, x) : s \in {t \in shorter : Len(t) = n - 1}, x \in S}

DefaultModels == {Absent, Str(GeminiFlash), Str(GroqLlama), Num(5)}

FallbackLists ==
  {Absent, Str(GroqLlama), [t |-> "list", v |-> <<Str(GroqLlama), Num(5)>>]}
    \cup {[t |-> "list", v |-> f] : f \in SeqsUpTo(ModelValues, MaxFallbacks)}

\* No alias, one alias, two aliases of two models, two aliases of one model,
\* an alias of a model outside the rotation, and a value that is no mapping.
AliasMaps ==
  {Absent, Null,
   [t |-> "dict", v |-> <<>>],
   [t |-> "dict", v |-> << <<"flash", GeminiFlash>> >>],
   [t |-> "dict", v |-> << <<"flash", GeminiFlash>>, <<"llama", GroqLlama>> >>],
   [t |-> "dict", v |-> << <<"fast", GroqLlama>>, <<"llama", GroqLlama>> >>],
   [t |-> "dict", v |-> << <<"big", OtherModel>> >>]}

\* Lists of auth.oauth.profiles entries: SAMPLE_STATUS's entry, entries
\* without remainingMs, and an entry with no field at all.
OAuthEntry(who, remaining) ==
  [profileId |-> Str(who), provider |-> Str("google-gemini-cli"),
   status |-> Str("ok"), expiresAt |-> Num(9000), remainingMs |-> remaining]

OAuthLists ==
  {[t |-> "list", v |-> l] :
     l \in {<<>>,
            <<OAuthEntry("bob", Num(3600))>>,
            <<OAuthEntry("bob", Num(3600)), OAuthEntry("ann", Absent)>>,
            <<OAuthEntry("ann", Absent), OAuthEntry("bob", Num(3600))>>,
            <<[profileId |-> Absent, provider |-> Absent, status |-> Absent,
               expiresAt |-> Absent, remainingMs |-> Absent],
              OAuthEntry("bob", Num(3600)), OAuthEntry("bob", Absent)>>}}

StatusDocs ==
  {[defaultModel |-> d, fallbacks |-> f, aliases |-> a, oauth |-> Absent] :
     d \in DefaultModels, f \in FallbackLists, a \in AliasMaps}
  \cup
  {[defaultModel |-> d, fallbacks |-> [t |-> "list", v |-> <<Str(GroqLlama)>>],
    aliases |-> Absent, oauth |-> o] :
     d \in {Absent, Str(GeminiFlash)}, o \in OAuthLists}

\* parse_model_status on its own, applied to every document of StatusDocs.
InitStatus ==
  /\ InitEnv
  /\ InitData
  /\ IdleParse
  /\ pm_raw \in StatusDocs
  /\ pm_result = Pending
  /\ IdleAuth
  /\ IdleGateway
  /\ IdleScreens

ParseStatus ==
  /\ pm_result = Pending
  /\ pm_result' = parse_model_status(pm_raw)
  /\ UNCHANGED <<pm_raw, parseVars, authVars, gatewayVars, screenVars, pureFrame>>

StatusSpec == InitStatus /\ [][ParseStatus]_vars


\* ---- the stores and clock readings read_auth_profiles is applied to
KeyChars == GroqKey \o <<"d", "e", "f", "h", "i", "j">>

\* API keys of every length up to MaxKeyLen (the empty key included), a
\* profile without key, and a key that is not a string.
ApiKeys == {Str(Take(KeyChars, n)) : n \in 0..MaxKeyLen} \cup {Absent, Num(5)}

ProfileTypes == {Absent, Str("apiKey"), Str("oauth")}

\* cooldownUntil: missing, over long ago, ending at a clock reading, set to
\* the first clock reading + 5000, and null.
Cooldowns == {Absent, Num(0), Num(1000), Num(6000), Null}

StatsOf(cooldown) ==
  [t |-> "dict", cooldownUntil |-> cooldown, errorCount |-> Num(2), lastUsed |-> Num(100)]

\* A store of two profiles; groq:manual has a usageStats entry only when
\* groq_stats is not Absent.
AuthStore(type, key, groq_stats, bob_cooldown) ==
  [t |-> "doc",
   profiles |-> [t |-> "dict", v |->
     << << <<"groq", "manual">>,
           [t |-> "dict", type |-> type, provider |-> Str("groq"),
            apiKey |-> key, expires |-> Absent, email |-> Absent] >>,
        << <<"google-gemini-cli", "bob">>,
           [t |-> "dict", type |-> Str("oauth"), provider |-> Absent,
            apiKey |-> Absent, expires |-> Num(9000), email |-> Str("bob@example.com")] >> >>],
   usageStats |-> [t |-> "dict", v |->
     (IF groq_stats = Absent THEN <<>> ELSE << << <<"groq", "manual">>, groq_stats >> >>)
       \o << << <<"google-gemini-cli", "bob">>, StatsOf(bob_cooldown) >> >>]]

\* Stores whose profiles or usageStats is a list, and a file that holds a
\* JSON list.
OddStores ==
  {[AuthDoc(Num(6000)) EXCEPT !.profiles = [t |-> "list", v |-> <<>>]],
   [AuthDoc(Num(6000)) EXCEPT !.usageStats = [t |-> "list", v |-> <<>>]],
   [t |-> "list"]}

AuthStores ==
  AuthFiles
    \cup OddStores
    \cup {AuthStore(ty, k, Absent, c) : ty \in ProfileTypes, k \in ApiKeys, c \in Cooldowns}
    \cup {AuthStore(Str("apiKey"), Str(GroqKey), StatsOf(g), c) :
            g \in Cooldowns, c \in Cooldowns}

\* read_auth_profiles on its own, applied to every store of AuthStores at
\* every reading of Clock.
InitAuth ==
  /\ InitEnv
  /\ InitData
  /\ IdleParse
  /\ IdleStatus
  /\ ra_file \in AuthStores
  /\ ra_now \in Clock
  /\ ra_result = Pending
  /\ IdleGateway
  /\ IdleScreens

ReadAuth ==
  /\ ra_result = Pending
  /\ ra_result' = read_auth_profiles(ra_file, ra_now)
  /\ UNCHANGED <<ra_file, ra_now, parseVars, statusVars, gatewayVars, screenVars, pureFrame>>

AuthSpec == InitAuth /\ [][ReadAuth]_vars

\* ---- what the health and version commands do
OtherLine ==
  [pidword |-> FALSE, digits |-> Absent, session |-> FALSE, entries |-> Absent, agents |-> Absent]

\* "Gateway PID: 4242", "pid 12", "Session store (3 entries)",
\* "Session store: none", "Session store pid 12345 (3 entries)",
\* "Agents: main, helper", "Agents:" and "gateway not reachable".
HealthLines ==
  {[OtherLine EXCEPT !.pidword = TRUE, !.digits = Str("4242")],
   [OtherLine EXCEPT !.pidword = TRUE],
   [OtherLine EXCEPT !.session = TRUE, !.entries = Str("3")],
   [OtherLine EXCEPT !.session = TRUE],
   [OtherLine EXCEPT !.pidword = TRUE, !.digits = Str("12345"), !.session = TRUE,
                     !.entries = Str("3")],
   [OtherLine EXCEPT !.agents = Num(1)],
   [OtherLine EXCEPT !.agents = Num(0)],
   OtherLine}

HealthRuns ==
  {[t |-> "raise"]}
    \cup {[t |-> "done", returncode |-> rc, lines |-> l] :
            rc \in {0, 1}, l \in SeqsUpTo(HealthLines, MaxHealthLines)}

\* "", "1.2\n", " v1.2 " and a text of 22 characters.
VersionRuns ==
  {[t |-> "raise"],
   [t |-> "done", stdout |-> <<>>],
   [t |-> "done", stdout |-> <<"1", ".", "2", "\n">>],
   [t |-> "done", stdout |-> <<" ", "v", "1", ".", "2", " ">>],
   [t |-> "done", stdout |-> [i \in 1..22 |-> IF i % 2 = 1 THEN "a" ELSE "b"]]}

\* fetch_gateway_status on its own, with every outcome of the two commands.
InitGateway ==
  /\ InitEnv
  /\ InitData
  /\ IdleParse
  /\ IdleStatus
  /\ IdleAuth
  /\ gw_health \in HealthRuns
  /\ gw_version \in VersionRuns
  /\ gw_result = Pending
  /\ IdleScreens

FetchGateway ==
  /\ gw_result = Pending
  /\ gw_result' = fetch_gateway_status(gw_health, gw_version)
  /\ UNCHANGED <<gw_health, gw_version, parseVars, statusVars, authVars, screenVars, pureFrame>>

GatewaySpec == InitGateway /\ [][FetchGateway]_vars

\* ---------------------------------------------------------- ProviderScreen

\* _load_providers (lines 500-530) on the content of openclaw.json and of the
\* credential store.  A base URL is the sequence of its scheme, the first
\* label of its host and the rest, so that startswith("http://127") and
\* startswith("http://localhost") are tests on its first two elements.  Any
\* exception (a file missing or not JSON, profiles not a mapping) gives [].
_load_providers(c, auth) ==
  LET StartsWith(x, prefix) == Len(x) >= Len(prefix) /\ SubSeq(x, 1, Len(prefix)) = prefix
      auth_profiles == IF auth.profiles = Absent THEN <<>> ELSE auth.profiles.v
      entry(pid, pdata) ==
        LET oauth_count == Cardinality({i \in DOMAIN auth_profiles :
                                          /\ auth_profiles[i][2].provider = Str(pid)
                                          /\ auth_profiles[i][2].type = Str("oauth")})
            api_key == IF pdata.apiKey = Absent THEN "" ELSE pdata.apiKey.v
            base_url == IF pdata.baseUrl = Absent THEN <<>> ELSE pdata.baseUrl.v
        IN  [id |-> pid, base_url |-> base_url, api_key |-> api_key, models |-> pdata.models,
             auth_tag |->
               IF oauth_count # 0 THEN [t |-> "OAUTH", n |-> oauth_count]
               ELSE IF api_key # "" /\ api_key # "from-auth-profiles"
               THEN [t |-> "API KEY", n |-> 0]
               ELSE IF \/ StartsWith(base_url, <<"http://", "127">>)
                       \/ StartsWith(base_url, <<"http://", "localhost">>)
               THEN [t |-> "LOCAL  ", n |-> 0]
               ELSE [t |-> "CUSTOM ", n |-> 0]]
  IN  IF c.t # "dict" \/ auth.t # "doc" THEN <<>>
      ELSE IF c.providers # <<>> /\ auth.profiles # Absent /\ auth.profiles.t # "dict" THEN <<>>
      ELSE [i \in DOMAIN c.providers |-> entry(c.providers[i][1], c.providers[i][2])]

\* Contents of openclaw.json: models.providers as the ordered items of the
\* mapping, agents.defaults.model.fallbacks as a list of provider/model ids
\* or missing; or a file that is missing or not JSON.
Configs ==
  LET Data(url, key, models) == [baseUrl |-> url, apiKey |-> key, models |-> models]
      Api == Str(<<"https://", "api", ".groq.com/openai/v1">>)
  IN  {[t |-> "unreadable"],
       [t |-> "dict", providers |-> <<>>, fallbacks |-> Absent],
       [t |-> "dict",
        providers |-> << <<"google-gemini-cli", Data(Str(<<"http://", "localhost", ":8080/v1">>),
                                                     Str("sk-live"), <<"flash">>)>>,
                         <<"groq", Data(Str(<<"http://", "127", ".0.0.1:9000">>),
                                        Str("sk-live"), <<"llama">>)>>,
                         <<"ollama", Data(Str(<<"http://", "127", ".0.0.1:11434">>),
                                          Absent, <<>>)>> >>,
        fallbacks |-> [t |-> "list", v |-> << <<"groq", "llama">> >>]],
       [t |-> "dict",
        providers |-> << <<"lm", Data(Str(<<"https://", "localhost", ":8443/v1">>),
                                      Str("from-auth-profiles"), <<>>)>>,
                         <<"edge", Data(Api, Str(""), <<>>)>>,
                         <<"bare", Data(Absent, Absent, <<>>)>> >>,
        fallbacks |-> [t |-> "list", v |-> <<>>]]}

\* The provider screen after on_mount (lines 890-894, 906-909).
InitProviders ==
  /\ InitData
  /\ today = 1
  /\ created = {}
  /\ logs = [d \in Days |-> <<>>]
  /\ authFile \in {[t |-> "missing"], AuthDoc(Absent),
                    [AuthDoc(Absent) EXCEPT !.profiles = [t |-> "list", v |-> <<>>]]}
  /\ IdleParse
  /\ IdleStatus
  /\ IdleAuth
  /\ IdleGateway
  /\ cfg \in Configs
  /\ pv = [providers |-> _load_providers(cfg, authFile), cursor |-> 0]
  /\ wz = NoWizard
  /\ sw = NoModal

providerFrame == <<envVars, q, enq, tailerVars, pollVars, drainVars, parseVars, statusVars,
                   authVars, gatewayVars, sw>>

\* ProviderScreen.on_key (lines 966-972).
ProviderKey ==
  /\ ~wz.open
  /\ \E key \in {"up", "down"} :
       pv' = [pv EXCEPT !.cursor = IF key = "up" THEN Max(0, @ - 1)
                                   ELSE Min(Len(pv.providers) - 1, @ + 1)]
  /\ UNCHANGED <<cfg, wz, providerFrame>>

\* A removal that also drops the fallback ids naming the provider.
_remove_current_mut ==
  /\ ~wz.open
  /\ pv.providers # <<>>
  /\ -Len(pv.providers) <= pv.cursor /\ pv.cursor < Len(pv.providers)
  /\ LET n == Len(pv.providers)
         pid == pv.providers[IF pv.cursor < 0 THEN n + pv.cursor + 1 ELSE pv.cursor + 1].id
     IN  /\ \E io \in {"ok", "oserror"} :
              cfg' = IF cfg.t = "dict" /\ io = "ok"
                     THEN [cfg EXCEPT !.providers = SelectSeq(@, LAMBDA it : it[1] # pid),
                                      !.fallbacks = IF @ = Absent THEN @
                                                    ELSE [t |-> "list", v |->
                                                           SelectSeq(@.v, LAMBDA f : f[1] # pid)]]
                     ELSE cfg
         /\ LET loaded == _load_providers(cfg', authFile)
            IN  pv' = [providers |-> loaded,
                       cursor |-> Max(0, Min(pv.cursor, Len(loaded) - 1))]
  /\ UNCHANGED <<wz, providerFrame>>

\* ProviderScreen.action_remove_provider and _remove_current (lines 976,
\* 985-996): pop the highlighted id from models.providers, write the file,
\* reload and clamp the cursor.  A negative cursor indexes from the end; io is
\* whether write_text succeeds.
_remove_current ==
  /\ ~wz.open
  /\ pv.providers # <<>>
  /\ -Len(pv.providers) <= pv.cursor /\ pv.cursor < Len(pv.providers)
  /\ LET n == Len(pv.providers)
         pid == pv.providers[IF pv.cursor < 0 THEN n + pv.cursor + 1 ELSE pv.cursor + 1].id
     IN  /\ \E io \in {"ok", "oserror"} :
              cfg' = IF cfg.t = "dict" /\ io = "ok"
                     THEN [cfg EXCEPT !.providers = SelectSeq(@, LAMBDA it : it[1] # pid)]
                     ELSE cfg
         /\ LET loaded == _load_providers(cfg', authFile)
            IN  pv' = [providers |-> loaded,
                       cursor |-> Max(0, Min(pv.cursor, Len(loaded) - 1))]
  /\ UNCHANGED <<wz, providerFrame>>

\* ProviderScreen.action_new_provider (line 975) pushes a new wizard.
action_new_provider ==
  /\ ~wz.open
  /\ wz.thread # "running"
  /\ cfg.t = "dict" /\ cfg.fallbacks # Absent => Len(cfg.fallbacks.v) < MaxFallbacks
  /\ wz' = [NoWizard EXCEPT !.open = TRUE]
  /\ UNCHANGED <<cfg, pv, providerFrame>>

\* A write that appends the entry even when the name is already there.
_write_new_provider_mut(c, name, base_url, api_key, add_to_rotation, io) ==
  IF c.t # "dict" \/ io # "ok" THEN c
  ELSE LET pdata == [baseUrl |-> Str(base_url),
                     apiKey |-> Str(IF api_key # "" THEN api_key ELSE "from-auth-profiles"),
                     models |-> <<>>]
           fallbacks == IF c.fallbacks = Absent THEN <<>> ELSE c.fallbacks.v
       IN  [c EXCEPT !.providers = Append(@, <<name, pdata>>),
                     !.fallbacks = IF add_to_rotation
                                   THEN [t |-> "list", v |-> Append(fallbacks, <<name, "default">>)]
                                   ELSE @]

\* _write_new_provider (lines 1170-1188): the content of openclaw.json after
\* the call.  providers[name] = ... replaces the value of a key that exists
\* and appends a new key; setdefault creates the fallback list.
_write_new_provider(c, name, base_url, api_key, add_to_rotation, io) ==
  IF c.t # "dict" \/ io # "ok" THEN c
  ELSE LET pdata == [baseUrl |-> Str(base_url),
                     apiKey |-> Str(IF api_key # "" THEN api_key ELSE "from-auth-profiles"),
                     models |-> <<>>]
           fallbacks == IF c.fallbacks = Absent THEN <<>> ELSE c.fallbacks.v
       IN  [c EXCEPT !.providers =
                       IF \E i \in DOMAIN @ : @[i][1] = name
                       THEN [i \in DOMAIN @ |-> IF @[i][1] = name THEN <<name, pdata>> ELSE @[i]]
                       ELSE Append(@, <<name, pdata>>),
                     !.fallbacks = IF add_to_rotation
                                   THEN [t |-> "list", v |-> Append(fallbacks, <<name, "default">>)]
                                   ELSE @]

\* A wizard whose Enter on the type list goes straight to the confirmation.
WizardKey_mut ==
  /\ wz.open
  /\ wz.step = 1
  /\ wz' = [wz EXCEPT !.type = <<"apikey", "oauth", "custom">>[wz.type_cursor + 1], !.step = 3]
  /\ UNCHANGED <<cfg, pv, providerFrame>>

\* AddProviderWizard.on_key (lines 1137-1156) and _confirm (lines 1158-1164),
\* with _on_provider_added (lines 979-983) run by the dismissal.  The values
\* of the three inputs are read at Enter; ok is whether query_one finds them.
WizardKey ==
  /\ wz.open
  /\ \E key \in {"up", "down", "enter"} :
       IF wz.step = 1
       THEN /\ wz' = IF key = "up" THEN [wz EXCEPT !.type_cursor = Max(0, @ - 1)]
                     ELSE IF key = "down" THEN [wz EXCEPT !.type_cursor = Min(2, @ + 1)]
                     ELSE LET type == <<"apikey", "oauth", "custom">>[wz.type_cursor + 1]
                          IN  [wz EXCEPT !.type = type, !.step = 2,
                                         !.thread = IF type = "oauth" THEN "running" ELSE @]
            /\ UNCHANGED <<cfg, pv>>
       ELSE IF wz.step = 2
       THEN /\ \E name \in {"", "groq", "lm"}, url \in {<<>>, <<"http://", "localhost", ":1234/v1">>},
                  api_key \in {"", "sk-new"}, ok \in BOOLEAN :
                 wz' = IF wz.type \in {"apikey", "custom"} /\ key = "enter" /\ ok
                       THEN [wz EXCEPT !.form = [name |-> name, url |-> url, key |-> api_key],
                                       !.step = IF name # "" /\ url # <<>> THEN 3 ELSE 2]
                       ELSE wz
            /\ UNCHANGED <<cfg, pv>>
       ELSE IF key = "up"
       THEN wz' = [wz EXCEPT !.confirm_cursor = Max(0, @ - 1)] /\ UNCHANGED <<cfg, pv>>
       ELSE IF key = "down"
       THEN wz' = [wz EXCEPT !.confirm_cursor = Min(2, @ + 1)] /\ UNCHANGED <<cfg, pv>>
       ELSE IF wz.confirm_cursor = 2
       THEN /\ wz' = [wz EXCEPT !.open = FALSE, !.result = "None", !.dismissals = @ + 1]
            /\ UNCHANGED <<cfg, pv>>
       ELSE /\ \E io \in {"ok", "oserror"} :
                 cfg' = _write_new_provider(cfg, wz.form.name, wz.form.url, wz.form.key,
                                            wz.confirm_cursor = 0, io)
            /\ wz' = [wz EXCEPT !.open = FALSE, !.result = "added", !.writes = @ + 1,
                                !.dismissals = @ + 1]
            /\ pv' = [pv EXCEPT !.providers = _load_providers(cfg', authFile)]
  /\ UNCHANGED providerFrame

\* AddProviderWizard.action_cancel (lines 1166-1167), bound to Escape.
action_cancel ==
  /\ wz.open
  /\ wz' = [wz EXCEPT !.open = FALSE, !.result = "None", !.dismissals = @ + 1]
  /\ UNCHANGED <<cfg, pv, providerFrame>>

\* AddProviderWizard._run_oauth (lines 1132-1135), the login thread.  When
\* subprocess.run returns, dismiss({"oauth": True}) is called through
\* call_from_thread, whether or not the wizard is still on the screen, and
\* the dismissal of an open wizard runs _on_provider_added, which reloads.
\* When subprocess.run raises (TimeoutExpired after 120 s, the command
\* missing) the thread ends without calling dismiss.
_run_oauth ==
  /\ wz.thread = "running"
  /\ \E ended \in {"returned", "raised"} :
       IF ended = "raised"
       THEN wz' = [wz EXCEPT !.thread = "failed"] /\ UNCHANGED pv
       ELSE /\ wz' = [wz EXCEPT !.open = FALSE, !.thread = "done", !.dismissals = @ + 1,
                                !.result = IF wz.open THEN "oauth" ELSE @]
            /\ pv' = IF wz.open THEN [pv EXCEPT !.providers = _load_providers(cfg, authFile)]
                     ELSE pv
  /\ UNCHANGED <<cfg, providerFrame>>

\* The provider screen and the add-provider wizard.
NextProviders ==
  \/ ProviderKey
  \/ _remove_current
  \/ action_new_provider
  \/ WizardKey
  \/ action_cancel
  \/ _run_oauth

ProviderSpec == InitProviders /\ [][NextProviders]_vars

\* ------------------------------------------------------- SwitchModelScreen

\* SwitchModelScreen._filtered (lines 558-561).  The text of a label is the
\* sequence of its symbols, the two segments joined by "/"; a filter is the
\* sequence of the symbols typed; `in` is the test for a run of consecutive
\* symbols and lower() maps the one upper-case symbol of the model.
_filtered(entries, filter) ==
  LET lower(x) == [i \in DOMAIN x |-> IF x[i] = "GROQ" THEN "groq" ELSE x[i]]
      text(label) == IF Len(label) = 2 THEN label[1] \o <<"/">> \o label[2]
                     ELSE IF Len(label) = 1 THEN label[1] ELSE <<>>
      in(sub, x) == \E k \in 0..(Len(x) - Len(sub)) : SubSeq(x, k + 1, k + Len(sub)) = sub
  IN  IF filter = <<>> THEN entries
      ELSE SelectSeq(entries, LAMBDA e : in(lower(filter), lower(text(e.label))))

\* DashboardScreen.action_switch_model (lines 856-863) has pushed the dialog
\* with the rotation parse_model_status made of the status document pm_raw;
\* SwitchModelScreen.__init__ (lines 539-543).  arg is the model given to
\* `openclaw models set`, None as long as the command was not run.
InitSwitch ==
  /\ InitEnv
  /\ InitData
  /\ IdleParse
  /\ IdleAuth
  /\ IdleGateway
  /\ pm_raw \in {[defaultModel |-> d, fallbacks |-> [t |-> "list", v |-> f],
                   aliases |-> Absent, oauth |-> Absent] :
                    d \in {Absent, Str(GeminiFlash)}, f \in SeqsUpTo(ModelValues, MaxFallbacks)}
  /\ pm_result = parse_model_status(pm_raw)
  /\ cfg = [t |-> "unreadable"]
  /\ pv = [providers |-> <<>>, cursor |-> 0]
  /\ wz = NoWizard
  /\ sw = [open |-> TRUE, rotation |-> pm_result.rotation, cursor |-> 0, filter |-> <<>>,
           arg |-> None]

switchFrame == <<envVars, q, enq, tailerVars, pollVars, drainVars, parseVars, statusVars,
                 authVars, gatewayVars, cfg, pv, wz>>

\* SwitchModelScreen.on_key (lines 597-616).
SwitchKey ==
  /\ sw.open
  /\ \E key \in {"up", "down", "slash", "backspace", "gemini", "groq", "GROQ", "z"} :
       LET entries == _filtered(sw.rotation, sw.filter)
       IN  sw' = IF key = "up" THEN [sw EXCEPT !.cursor = Max(0, @ - 1)]
                 ELSE IF key = "down" THEN [sw EXCEPT !.cursor = Min(Len(entries) - 1, @ + 1)]
                 ELSE IF key = "slash" THEN [sw EXCEPT !.filter = <<>>]
                 ELSE IF key = "backspace"
                 THEN IF sw.filter # <<>>
                      THEN [sw EXCEPT !.filter = SubSeq(@, 1, Len(@) - 1), !.cursor = 0]
                      ELSE sw
                 ELSE IF Len(sw.filter) < MaxFilter
                 THEN [sw EXCEPT !.filter = Append(@, key), !.cursor = 0]
                 ELSE sw
  /\ UNCHANGED switchFrame

\* An Enter that hands the label of the entry to the command.
action_select_mut ==
  /\ sw.open
  /\ LET entries == _filtered(sw.rotation, sw.filter)
         n == Len(entries)
     IN  /\ entries # <<>>
         /\ -n <= sw.cursor /\ sw.cursor < n
         /\ LET model == entries[IF sw.cursor < 0 THEN n + sw.cursor + 1 ELSE sw.cursor + 1].label
            IN  sw' = [sw EXCEPT !.open = FALSE,
                                 !.arg = IF model # EmptyString THEN Str(model) ELSE None]
  /\ UNCHANGED switchFrame

\* SwitchModelScreen.action_select (lines 618-621) and on_select (lines
\* 857-859): Enter dismisses the dialog with the model of the entry under the
\* cursor, and a model that is not empty is given to `openclaw models set`.
\* A negative cursor indexes from the end.
action_select ==
  /\ sw.open
  /\ LET entries == _filtered(sw.rotation, sw.filter)
         n == Len(entries)
     IN  /\ entries # <<>>
         /\ -n <= sw.cursor /\ sw.cursor < n
         /\ LET model == entries[IF sw.cursor < 0 THEN n + sw.cursor + 1 ELSE sw.cursor + 1].model
            IN  sw' = [sw EXCEPT !.open = FALSE,
                                 !.arg = IF model # EmptyString THEN Str(model) ELSE None]
  /\ UNCHANGED switchFrame

\* Escape (line 535): the dialog is dismissed with None and no command runs.
action_dismiss ==
  /\ sw.open
  /\ sw' = [sw EXCEPT !.open = FALSE]
  /\ UNCHANGED switchFrame

NextSwitch ==
  \/ SwitchKey
  \/ action_select
  \/ action_dismiss

SwitchSpec == InitSwitch /\ [][NextSwitch]_vars

\* ---------------------------------------------------------- DashboardScreen

\* The gateway appends an event to today's log file: the n-th line, of
\* subsystem gateway/model or of subsystem gateway/ws, which is not one of
\* LOG_IMPORTANT_SUBSYSTEMS.
AppendEvent ==
  /\ today \in created
  /\ Written < MaxLines
  /\ \E line \in {EventLine(Written + 1),
                   [EventLine(Written + 1) EXCEPT
                      !.meta.name = EncodedName(Str(<<"gateway", "ws">>))]} :
       logs' = [logs EXCEPT ![today] = Append(@, line)]
  /\ UNCHANGED <<today, created, authFile, q, enq, tailerVars, pollVars, drainVars, pureVars>>

\* DashboardScreen.action_toggle_verbose (lines 851-852).
action_toggle_verbose ==
  /\ dpc = "idle"
  /\ ~crashed
  /\ dash' = [dash EXCEPT !.verbose = ~@]
  /\ UNCHANGED <<dpc, events, drained, dq0, dconc, q, enq, envVars, tailerVars, pollVars,
                 pureVars>>

\* The log pane: the tailer on one day without I/O errors, the 0.5 s timer
\* that drains the queue into the pane, and the verbose toggle.
NextPane ==
  \/ CreateLog
  \/ AppendEvent
  \/ TailerStart
  \/ TailerLoop
  \/ TailerWaitFile
  \/ TailerOpen
  \/ TailerInner
  \/ TailerRead
  \/ TailerPut
  \/ TailerWaitData
  \/ DrainStart
  \/ DrainCheck
  \/ DrainGet
  \/ action_toggle_verbose

PaneSpec == Init /\ [][NextPane]_vars

\* ------------------------------------------------------------------ claims

\* A refresh() whose model-status fetch fails.
RefreshFailed ==
  \E cli \in StatusOutputs, now_ms \in Clock :
    fetch_model_status(cli) = None /\ refresh(cli, now_ms)

\* C1: a refresh() whose model-status fetch fails leaves what the rotation
\* and default_model accessors return as it was before the call; as long as
\* no fetch has succeeded they return the empty list and the empty string.
C1_FailedFetchKeepsAccessors ==
  /\ [][RefreshFailed => (rotation' = rotation /\ default_model' = default_model)]_vars
  /\ [](~fetchedOnce => (rotation = <<>> /\ default_model = EmptyString))

\* A fetch failed after one that succeeded, and the rotation is still there.
C1_Witness == lastFetch = "failed" /\ fetchedOnce /\ Len(rotation) = 2

\* C2 (as claimed): the tailer's enqueue step never blocks: whenever the
\* tailer holds a parsed event to enqueue, it can take its next step,
\* whatever the queue holds.
C2_EnqueueNeverBlocks == tpc = "put" => ENABLED TailerStep

\* C3 (as claimed): once stop() has set the flag, a started tailer thread
\* eventually leaves its run loop, whether or not drain_logs is called.
C3_StopEndsTailer == (stop /\ tpc # "new") ~> (tpc = "done")

\* C4 (as claimed): a tailer that holds open the file of a day that is over
\* eventually leaves that file.  (A tailer waiting to enqueue is excused here:
\* that wait is the subject of C2.)
C4_RolloverLeavesOldFile ==
  (tfile # 0 /\ tfile < today) ~> (tfile = 0 \/ tfile = today \/ tpc = "put")

\* C5: every event the tailer enqueued is in exactly one place, and in the
\* order of the enqueues: the drain results so far, then the events the
\* running drain_logs call has taken, then the queue.
C5_EachEventOnceInOrder == drained \o events \o q = enq

\* The tailer enqueued while a drain_logs call was running, which has taken
\* an event and finds another one queued.
C5_Witness == dpc = "check" /\ dconc /\ events # <<>> /\ q # <<>> /\ drained # <<>>

\* C6: drain_logs never waits (its next step is always enabled); a call
\* during which the tailer enqueues nothing returns exactly the events that
\* were queued when it began, in order, and leaves the queue empty; begun on
\* an empty queue it returns the empty sequence, leaves the queue, the held
\* snapshot and the profile list as they were.
C6_DrainNeverWaits ==
  /\ [](dpc # "idle" => ENABLED (DrainCheck \/ DrainGet))
  /\ [][(dpc # "idle" /\ dpc' = "idle" /\ ~dconc)
          => (drained' = drained \o dq0 /\ q' = <<>>)]_vars
  /\ [][((DrainCheck \/ DrainGet) /\ dq0 = <<>> /\ ~dconc)
          => (dpc' = "idle" /\ drained' = drained
              /\ UNCHANGED <<q, status, profiles, stop>>)]_vars

\* A call that began with two events queued has taken both, with no enqueue
\* in between, and is about to return them.
C6_Witness == dpc = "check" /\ ~dconc /\ Len(dq0) = 2 /\ events = dq0 /\ q = <<>>

\* C7: the event queue never holds more events than its capacity.
C7_QueueBounded == Len(q) <= maxsize

\* The queue is full and the tailer holds one more parsed event.
C7_Witness == Len(q) = maxsize /\ tpc = "put"

\* C8: either no fetch has succeeded (no rotation, empty default model), or
\* the rotation is non-empty, its first entry is the default model, and the
\* rotation and the default model are those of one and the same fetch.
C8_RotationMatchesDefault ==
  IF ~fetchedOnce
  THEN rotation = <<>> /\ default_model = EmptyString
  ELSE /\ rotation # <<>>
       /\ rotation[1].model = default_model
       /\ \E cli \in StatusOutputs :
            LET fetched == fetch_model_status(cli)
            IN  /\ fetched # None
                /\ rotation = fetched.rotation
                /\ default_model = fetched.default

\* The fetch of a document without defaultModel succeeded, then a fetch failed.
C8_Witness ==
  fetchedOnce /\ lastFetch = "failed" /\ Len(rotation) = 3 /\ default_model = EmptyString

\* C9 (as claimed): _parse_log_line returns None for a string that is not
\* JSON, for the empty string and for a JSON record without a message field.
C9_MalformedGivesNone ==
  (/\ pl_result # Pending
   /\ \/ pl_line.kind \in {"text", "empty"}
      \/ pl_line.kind = "object" /\ pl_line.msg = Absent)
  => pl_result = None

\* C10 (as claimed): an event is important exactly when its subsystem, with
\* the gateway/ prefix stripped, is model, ratelimit, fallback, error or
\* reload, or its level is ERROR.
C10_ImportantIff ==
  pl_result.t = "event" =>
    (pl_result.important <=>
       \/ pl_result.subsystem \in
            {<<"model">>, <<"ratelimit">>, <<"fallback">>, <<"error">>, <<"reload">>}
       \/ pl_result.level = "ERROR")

\* C11: for a status document whose defaultModel is the string D and whose
\* fallbacks are the strings f1..fn (aliases a mapping or missing),
\* parse_model_status returns default = D and a rotation of n+1 entries:
\* entry 0 has model D, status ACTIVE and position 0; entry i (1 <= i <= n)
\* has model f_i, status "#i" and position i.
C11_RotationOfDefaultAndFallbacks ==
  (/\ pm_result # Pending
   /\ pm_raw.defaultModel.t = "str"
   /\ pm_raw.fallbacks.t = "list"
   /\ \A i \in DOMAIN pm_raw.fallbacks.v : pm_raw.fallbacks.v[i].t = "str"
   /\ pm_raw.aliases.t \in {"absent", "dict"})
  => LET D == pm_raw.defaultModel.v
         f == pm_raw.fallbacks.v
         n == Len(f)
     IN  /\ pm_result.t = "status"
         /\ pm_result.default = D
         /\ Len(pm_result.rotation) = n + 1
         /\ pm_result.rotation[1].model = D
         /\ pm_result.rotation[1].status = <<"ACTIVE">>
         /\ pm_result.rotation[1].position = 0
         /\ \A i \in 1..n :
              /\ pm_result.rotation[i + 1].model = f[i].v
              /\ pm_result.rotation[i + 1].status = <<"#", i>>
              /\ pm_result.rotation[i + 1].position = i

\* A document with a default model and two fallbacks has been parsed.
C11_Witness ==
  /\ pm_result # Pending
  /\ pm_result.t = "status"
  /\ pm_raw.defaultModel = Str(GeminiFlash)
  /\ pm_raw.fallbacks.t = "list"
  /\ Len(pm_raw.fallbacks.v) = 2
  /\ pm_result.rotation[3].status = <<"#", 2>>

\* The aliases of the parsed document, as (alias, model) items.
C12_Items == IF pm_raw.aliases.t = "dict" THEN pm_raw.aliases.v ELSE <<>>

\* C12 (as claimed): if aliases maps alias a to model m and m appears in the
\* rotation, the rotation entry for m has alias = a; every rotation entry
\* whose model is the target of no alias has alias = None.
C12_EveryAliasShown ==
  (pm_result # Pending /\ pm_result.t = "status")
  => \A e \in DOMAIN pm_result.rotation :
       LET entry == pm_result.rotation[e]
       IN  /\ \A i \in DOMAIN C12_Items :
                C12_Items[i][2] = entry.model => entry.alias = Str(C12_Items[i][1])
           /\ (\A i \in DOMAIN C12_Items : C12_Items[i][2] # entry.model)
                => entry.alias = None

\* C12 (amended): if aliases maps alias a to model m, no later alias of the
\* document maps to m, and m appears in the rotation, every rotation entry
\* for m has alias = a; every rotation entry whose model is the target of no
\* alias has alias = None.
C12_LastAliasShown ==
  (pm_result # Pending /\ pm_result.t = "status")
  => \A e \in DOMAIN pm_result.rotation :
       LET entry == pm_result.rotation[e]
       IN  /\ \A i \in DOMAIN C12_Items :
                (/\ C12_Items[i][2] = entry.model
                 /\ \A j \in (i + 1)..Len(C12_Items) : C12_Items[j][2] # entry.model)
                => entry.alias = Str(C12_Items[i][1])
           /\ (\A i \in DOMAIN C12_Items : C12_Items[i][2] # entry.model)
                => entry.alias = None

\* A document with two aliases of one model of its rotation, and an entry
\* without alias, has been parsed.
C12_Witness ==
  /\ pm_result # Pending
  /\ pm_result.t = "status"
  /\ Len(C12_Items) = 2
  /\ C12_Items[1][2] = C12_Items[2][2]
  /\ \E e \in DOMAIN pm_result.rotation :
       pm_result.rotation[e].alias = Str(C12_Items[2][1])
  /\ \E e \in DOMAIN pm_result.rotation : pm_result.rotation[e].alias = None

\* The profiles and the usage statistics of the store read on its own.
C13_Profiles == IF ra_file.t = "doc" /\ ra_file.profiles # Absent THEN ra_file.profiles.v ELSE <<>>
C13_Usage == IF ra_file.t = "doc" /\ ra_file.usageStats # Absent THEN ra_file.usageStats.v ELSE <<>>

\* C13: for every profile of a store read at time now, read_auth_profiles
\* reports in_cooldown = True exactly when the profile's cooldownUntil is
\* greater than now, with 0 < cooldown_remaining_ms <= cooldownUntil - now;
\* otherwise in_cooldown = False and cooldown_remaining_ms = 0.  So
\* in_cooldown holds iff cooldown_remaining_ms > 0, and a cooldown set to
\* now + 5000 is reported at now and no longer at now + 6000.
C13_CooldownIffLater ==
  (ra_result # Pending /\ ra_result # Raise)
  => /\ Len(ra_result) = Len(C13_Profiles)
     /\ \A i \in DOMAIN C13_Profiles :
          LET e == ra_result[i]
              stats == ItemsGet(C13_Usage, C13_Profiles[i][1], NoStats)
              until == stats.cooldownUntil
          IN  /\ e.profile_id = C13_Profiles[i][1]
              /\ IF until # Absent /\ until.v > ra_now
                 THEN /\ e.in_cooldown = TRUE
                      /\ 0 < e.cooldown_remaining_ms
                      /\ e.cooldown_remaining_ms <= until.v - ra_now
                 ELSE /\ e.in_cooldown = FALSE
                      /\ e.cooldown_remaining_ms = 0
              /\ e.in_cooldown <=> e.cooldown_remaining_ms > 0
              /\ (until # Absent /\ until.v = ra_now + 5000) => e.in_cooldown
              /\ (until # Absent /\ ra_now = until.v + 1000) => ~e.in_cooldown

\* One store read twice: a cooldown until 6000 is reported at 1000, and a
\* cooldown that ends at the reading itself is not.
C13_Witness ==
  /\ ra_result # Pending
  /\ ra_result # Raise
  /\ Len(ra_result) = 2
  /\ ra_now = 1000
  /\ ItemsGet(C13_Usage, ra_result[2].profile_id, NoStats).cooldownUntil = Num(6000)
  /\ ra_result[2].in_cooldown
  /\ ra_result[2].cooldown_remaining_ms = 5000
  /\ ItemsGet(C13_Usage, ra_result[1].profile_id, NoStats).cooldownUntil = Num(1000)
  /\ ~ra_result[1].in_cooldown

\* C14: for every profile, read_auth_profiles reports auth_type equal to the
\* profile's type field ("unknown" when the field is missing), and a profile
\* without cooldown entry in usageStats is reported with in_cooldown = False,
\* whatever its type.
C14_TypeAndNoCooldown ==
  (ra_result # Pending /\ ra_result # Raise)
  => /\ Len(ra_result) = Len(C13_Profiles)
     /\ \A i \in DOMAIN C13_Profiles :
          LET e == ra_result[i]
              pdata == C13_Profiles[i][2]
          IN  /\ pdata.type = Absent => e.auth_type = "unknown"
              /\ pdata.type # Absent => e.auth_type = pdata.type.v
              /\ (\A j \in DOMAIN C13_Usage :
                     C13_Usage[j][1] = C13_Profiles[i][1]
                       => C13_Usage[j][2].cooldownUntil = Absent)
                   => e.in_cooldown = FALSE

\* A profile without type and without usageStats entry, beside a profile in
\* cooldown, has been read.
C14_Witness ==
  /\ ra_result # Pending
  /\ ra_result # Raise
  /\ Len(ra_result) = 2
  /\ C13_Profiles[1][2].type = Absent
  /\ ra_result[1].auth_type = "unknown"
  /\ Len(C13_Usage) = 1
  /\ ~ra_result[1].in_cooldown
  /\ ra_result[2].auth_type = "oauth"
  /\ ra_result[2].in_cooldown

\* s contains sub as a run of consecutive characters.
C15_Contains(s, sub) ==
  \E k \in 0..(Len(s) - Len(sub)) : SubSeq(s, k + 1, k + Len(sub)) = sub

\* C15 (as claimed): for every profile that has an API key k, of any length,
\* read_auth_profiles returns as api_key the first 8 characters of k followed
\* by the ellipsis marker, and the returned value does not contain k.
C15_KeyNeverShownWhole ==
  (ra_result # Pending /\ ra_result # Raise)
  => \A i \in DOMAIN C13_Profiles :
       LET key == C13_Profiles[i][2].apiKey
       IN  (key.t = "str" /\ key.v # <<>>)
           => /\ ra_result[i].api_key = Str(Take(key.v, 8) \o Ellipsis)
              /\ ~C15_Contains(ra_result[i].api_key.v, key.v)

\* C16 (as claimed): every refresh() call replaces the held profile list
\* with the result of a read of the credential store made during that call,
\* also when the model-status fetch of the call fails; the list the profiles
\* accessor returns changes in no other way.
C16_RefreshReplacesProfiles ==
  /\ [][(\E cli \in StatusOutputs, now_ms \in Clock : refresh(cli, now_ms))
          => (\E now_ms \in Clock : profiles' = read_auth_profiles(authFile', now_ms))]_vars
  /\ [][profiles' # profiles
          => (\E cli \in StatusOutputs, now_ms \in Clock : refresh(cli, now_ms))]_vars

\* The usageStats entries of the store, when it has the documented shape.
C17_Stats(file) ==
  IF file.t = "doc" /\ file.usageStats # Absent /\ file.usageStats.t = "dict"
  THEN file.usageStats.v ELSE <<>>

\* C17 (as claimed): clearing the cooldown of a profile p that has a
\* usageStats entry removes p's cooldownUntil and sets p's errorCount to 0,
\* leaves every profile entry and every other profile's usage statistics
\* unchanged, and the refresh() that follows reports p with
\* in_cooldown = False and cooldown_remaining_ms = 0.
C17_ClearCooldownEffect ==
  [][\A p \in {<<"groq", "manual">>, <<"google-gemini-cli", "bob">>} :
       (/\ \E cli \in StatusOutputs, now_ms \in Clock :
              on_select_profile(Str(p), "ok", cli, now_ms)
        /\ \E i \in DOMAIN C17_Stats(authFile) :
              C17_Stats(authFile)[i][1] = p /\ C17_Stats(authFile)[i][2].t = "dict")
       => /\ authFile'.t = "doc"
          /\ authFile'.profiles = authFile.profiles
          /\ Len(C17_Stats(authFile')) = Len(C17_Stats(authFile))
          /\ \A i \in DOMAIN C17_Stats(authFile) :
               LET old == C17_Stats(authFile)[i]
                   new == C17_Stats(authFile')[i]
               IN  /\ new[1] = old[1]
                   /\ old[1] # p => new[2] = old[2]
                   /\ old[1] = p =>
                        /\ new[2].cooldownUntil = Absent
                        /\ new[2].errorCount = Num(0)
                        /\ new[2].lastUsed = old[2].lastUsed
          /\ ~crashed'
          /\ \E i \in DOMAIN profiles' :
               /\ profiles'[i].profile_id = p
               /\ profiles'[i].in_cooldown = FALSE
               /\ profiles'[i].cooldown_remaining_ms = 0]_vars

\* C20 (as claimed): when the `models set` command of the switch-model flow
\* or the restart command of the restart-confirm flow times out or fails, no
\* exception leaves the handler, and the held snapshot and the held profile
\* list stay as they were before the command.
C20_CommandFailureContained ==
  [][(\/ \E model \in {Str(GeminiFlash), Str(GroqLlama)}, cmd \in {"raise", "nonzero"},
            cli \in StatusOutputs, now_ms \in Clock :
            on_select_model(model, cmd, cli, now_ms)
      \/ \E cmd \in {"raise", "nonzero"} : on_confirm(TRUE, cmd))
     => (~crashed' /\ status' = status /\ profiles' = profiles)]_vars

\* A command of fetch_gateway_status raised.
C18_CommandRaised == gw_health.t = "raise" \/ gw_version.t = "raise"

\* C18 (as claimed): fetch_gateway_status never raises; when the health
\* command or the version command raises, it returns a snapshot with
\* state = ERR in which pid, session count, agent count and version are
\* absent.
C18_ErrFieldsAbsent ==
  gw_result # Pending
  => /\ gw_result # Raise
     /\ C18_CommandRaised
          => /\ gw_result.gateway = "ERR"
             /\ gw_result.pid = Absent
             /\ gw_result.sessions = Absent
             /\ gw_result.agents = Absent
             /\ gw_result.version = Absent

\* C18 (amended): fetch_gateway_status never raises; when the health command
\* or the version command raises, it returns a snapshot with state = ERR in
\* which pid, session count, agent count and version all hold the
\* placeholder "?".
C18_ErrFieldsPlaceholder ==
  gw_result # Pending
  => /\ gw_result # Raise
     /\ C18_CommandRaised
          => /\ gw_result.gateway = "ERR"
             /\ gw_result.pid = Str("?")
             /\ gw_result.sessions = Str("?")
             /\ gw_result.agents = Str("?")
             /\ gw_result.version = Str("?")

\* The health command printed a PID line and a session line, and the version
\* command raised.
C18_Witness ==
  /\ gw_result # Pending
  /\ gw_health.t = "done"
  /\ \E i \in DOMAIN gw_health.lines : gw_health.lines[i].digits = Str("4242")
  /\ \E i \in DOMAIN gw_health.lines : gw_health.lines[i].entries = Str("3")
  /\ gw_version.t = "raise"
  /\ gw_result.gateway = "ERR"

\* C19 (as claimed): when the health command ends with a non-zero exit
\* status, or with output from which nothing is parsed, fetch_gateway_status
\* returns the error sentinel (state = ERR), not a snapshot with state = RUN.
C19_FailedHealthGivesErr ==
  (/\ gw_result # Pending
   /\ gw_health.t = "done"
   /\ \/ gw_health.returncode # 0
      \/ \A i \in DOMAIN gw_health.lines :
           ApplyLine([pid |-> Absent, sessions |-> Absent, agents |-> Absent],
                     gw_health.lines[i])
             = [pid |-> Absent, sessions |-> Absent, agents |-> Absent])
  => gw_result.gateway = "ERR"

\* C21 (as claimed): read_auth_profiles, reading the store itself, never
\* raises: for a missing, unreadable or non-JSON file it returns the empty
\* sequence, and for a JSON file whose entries have an unexpected shape
\* (profiles or usageStats not a mapping, cooldownUntil null, apiKey not a
\* string) it returns a sequence.
C21_ReadNeverRaises ==
  ra_result # Pending
  => /\ ra_result # Raise
     /\ ra_file.t \in {"missing", "notjson"} => ra_result = <<>>

\* The entries of auth.oauth.profiles of the parsed document.
C22_Entries == IF pm_raw.oauth = Absent THEN <<>> ELSE pm_raw.oauth.v

\* C22: parse_model_status returns one OAuth profile summary per entry of
\* auth.oauth.profiles, in input order, each with the entry's profileId,
\* provider, status, expiresAt and remainingMs (remaining_ms = 0 when
\* remainingMs is missing); a document without auth data gives an empty
\* oauth_profiles.
C22_OneSummaryPerEntry ==
  (pm_result # Pending /\ pm_result.t = "status")
  => /\ Len(pm_result.oauth_profiles) = Len(C22_Entries)
     /\ \A i \in DOMAIN C22_Entries :
          LET p == C22_Entries[i]
              sum == pm_result.oauth_profiles[i]
          IN  /\ p.profileId # Absent => sum.profile_id = p.profileId.v
              /\ p.provider # Absent => sum.provider = p.provider.v
              /\ p.status # Absent => sum.status = p.status.v
              /\ p.expiresAt # Absent => sum.expires_at = p.expiresAt
              /\ p.remainingMs # Absent => sum.remaining_ms = p.remainingMs
              /\ p.remainingMs = Absent => sum.remaining_ms = Num(0)

\* A document with two entries, the first without remainingMs, has been
\* parsed.
C22_Witness ==
  /\ pm_result # Pending
  /\ pm_result.t = "status"
  /\ Len(C22_Entries) = 2
  /\ C22_Entries[1].remainingMs = Absent
  /\ pm_result.oauth_profiles[1].profile_id = "ann"
  /\ pm_result.oauth_profiles[1].remaining_ms = Num(0)
  /\ pm_result.oauth_profiles[2].profile_id = "bob"
  /\ pm_result.oauth_profiles[2].remaining_ms = Num(3600)

\* C23: the tailer enqueues only events parsed from lines appended after it
\* opened the file.  At each open its read position is the end of the file,
\* and while it holds the file the position moves one line at a time, never
\* back; an event is enqueued only as the parse of the line just read; and
\* each line read whose parse is not None is handed to the enqueue step,
\* which with room in the queue is enabled and is left only by enqueuing
\* that event.  So no line in the file at open time is enqueued, and each
\* line appended while tailing is enqueued once, in file order.
C23_OnlyAppendedLinesOnce ==
  /\ [][(tfile = 0 /\ tfile' # 0) => tpos' = Len(logs[tfile'])]_vars
  /\ [][(tfile # 0 /\ tfile' = tfile) => tpos' \in {tpos, tpos + 1}]_vars
  /\ [][enq' # enq
          => /\ tfile # 0 /\ tfile' = tfile /\ tpos' = tpos /\ tpos >= 1
             /\ _parse_log_line(logs[tfile][tpos]) # None
             /\ enq' = Append(enq, _parse_log_line(logs[tfile][tpos]))
             /\ q' = Append(q, _parse_log_line(logs[tfile][tpos]))]_vars
  /\ [][(tfile # 0 /\ tfile' = tfile /\ tpos' = tpos + 1
           /\ _parse_log_line(logs[tfile][tpos']) # None)
          => (tpc' = "put" /\ tparsed' = _parse_log_line(logs[tfile][tpos']))]_vars
  /\ [][(tpc = "put" /\ tpc' # "put") => Len(enq') = Len(enq) + 1]_vars
  /\ []((tpc = "put" /\ Len(q) < maxsize) => ENABLED TailerPut)

\* The file held one line when the tailer opened it; two lines appended
\* since have been enqueued in order, and the first line has not.
C23_Witness ==
  /\ tfile # 0
  /\ tpc = "inner"
  /\ tpos = 3
  /\ logs[tfile] = <<EventLine(1), EventLine(2), EventLine(3)>>
  /\ enq = <<_parse_log_line(EventLine(2)), _parse_log_line(EventLine(3))>>

C25_ComponentFrames ==
  /\ [][(tpc' # tpc \/ tpos' # tpos \/ tparsed' # tparsed \/ enq' # enq)
          => UNCHANGED <<status, profiles, crashed, lastFetch, fetchedOnce, modal,
                         authFile, today, created, logs, dpc, events, drained, stop>>]_vars
  /\ [][(status' # status \/ profiles' # profiles \/ lastFetch' # lastFetch
            \/ fetchedOnce' # fetchedOnce \/ crashed' # crashed)
          => UNCHANGED <<q, enq, tailerVars, drainVars>>]_vars
  /\ [][(dpc' # dpc \/ events' # events \/ drained' # drained)
          => UNCHANGED <<status, profiles, crashed, lastFetch, fetchedOnce, enq, tailerVars>>]_vars

\* A snapshot and a profile list are held, an event is queued and another
\* has been drained, and the tailer is in its loop.
C25_Witness ==
  /\ status.t = "status"
  /\ profiles # <<>>
  /\ q # <<>>
  /\ drained # <<>>
  /\ tpc = "inner"
  /\ lastFetch = "failed"

\* C26: every loaded provider carries exactly the tag the precedence gives:
\* OAUTH(n) when n > 0 OAuth profiles of the credential store name it;
\* otherwise API KEY when its key is present and is not the placeholder;
\* otherwise LOCAL when the host of its base URL is a loopback address or
\* localhost; otherwise CUSTOM.
C26_TagByPrecedence ==
  LET items == IF authFile.t = "doc" /\ authFile.profiles.t = "dict"
               THEN authFile.profiles.v ELSE <<>>
      n(p) == Cardinality({i \in DOMAIN items : /\ items[i][2].type = Str("oauth")
                                                 /\ items[i][2].provider = Str(p.id)})
      loopback(url) == Len(url) >= 2 /\ url[2] \in {"127", "localhost", "[::1]"}
  IN  \A i \in DOMAIN pv.providers :
        LET p == pv.providers[i]
        IN  p.auth_tag =
              IF n(p) > 0 THEN [t |-> "OAUTH", n |-> n(p)]
              ELSE IF p.api_key \notin {"", "from-auth-profiles"} THEN [t |-> "API KEY", n |-> 0]
              ELSE IF loopback(p.base_url) THEN [t |-> "LOCAL  ", n |-> 0]
              ELSE [t |-> "CUSTOM ", n |-> 0]

C28_Fallbacks(c) == IF c.fallbacks = Absent THEN <<>> ELSE c.fallbacks.v

\* The entry _write_new_provider builds from the wizard's form.
C28_NewEntry ==
  <<wz.form.name,
    [baseUrl |-> Str(wz.form.url),
     apiKey |-> Str(IF wz.form.key = "" THEN "from-auth-profiles" ELSE wz.form.key),
     models |-> <<>>]>>

\* The fallback sequence after a wizard's write: the id name/default is
\* appended exactly when the first choice (include in rotation) was taken.
C28_FallbacksAfter ==
  C28_Fallbacks(cfg') = IF wz.confirm_cursor = 0
                        THEN Append(C28_Fallbacks(cfg), <<wz.form.name, "default">>)
                        ELSE C28_Fallbacks(cfg)

C30_WizardSteps ==
  /\ [](wz.open => wz.step \in 1..3)
  /\ [][(~wz.open /\ wz'.open) => (wz'.step = 1 /\ wz'.writes = 0)]_vars
  /\ [][(wz.open /\ wz'.open) => wz'.step \in {wz.step, wz.step + 1}]_vars
  /\ [](wz.step = 3 => /\ wz.type \in {"apikey", "custom"}
                       /\ wz.form.name # ""
                       /\ wz.form.url # <<>>)
  /\ [](wz.writes <= 1)
  /\ [][wz'.writes > wz.writes => /\ wz.open /\ ~wz'.open
                                  /\ wz.step = 3
                                  /\ wz.confirm_cursor \in {0, 1}]_vars
  /\ [][(wz.open /\ cfg' # cfg) => wz'.writes = wz.writes + 1]_vars
  /\ []((~wz.open /\ wz.result = "None") => wz.writes = 0)

\* A custom provider went through the three steps and was written with the
\* second choice.
C30_Witness ==
  /\ ~wz.open
  /\ wz.result = "added"
  /\ wz.writes = 1
  /\ wz.step = 3
  /\ wz.type = "custom"
  /\ wz.confirm_cursor = 1
  /\ wz.form.name = "lm"

\* The model ids of the status document the dialog's rotation was made of.
C29_DocumentIds ==
  RotationModels(IF pm_raw.defaultModel = Absent THEN EmptyString ELSE pm_raw.defaultModel.v,
                 pm_raw.fallbacks.v)

\* C29: every entry of the rotation the dialog holds carries as model the id
\* of the status document, unaltered, and as label that id shortened; and the
\* model given to `openclaw models set` is the model field of an entry of
\* that rotation that passes the filter, whatever the filter and the cursor.
C29_CommandGetsModelField ==
  /\ Len(sw.rotation) = Len(C29_DocumentIds)
  /\ \A i \in DOMAIN sw.rotation :
       /\ Str(sw.rotation[i].model) = C29_DocumentIds[i]
       /\ sw.rotation[i].label = _shorten(sw.rotation[i].model)
  /\ sw.arg # None =>
       \E i \in DOMAIN sw.rotation :
         /\ sw.arg = Str(sw.rotation[i].model)
         /\ _filtered(<<sw.rotation[i]>>, sw.filter) # <<>>

\* With the filter "groq" typed, Enter gave the second entry's model to the
\* command; the default model's label differs from its id.
C29_Witness ==
  /\ ~sw.open
  /\ sw.filter = <<"groq">>
  /\ Len(sw.rotation) = 2
  /\ sw.rotation[1].model = GeminiFlash
  /\ sw.rotation[1].label # GeminiFlash
  /\ sw.arg = Str(GroqLlama)

\* C31: while the switch-model dialog is open and its filtered list is not
\* empty, the cursor is the index of one of its rows: 0 <= cursor < length.
C31_SwitchCursorInRange ==
  sw.open =>
    LET entries == _filtered(sw.rotation, sw.filter)
    IN  entries # <<>> => (0 <= sw.cursor /\ sw.cursor < Len(entries))

\* C32: whenever the provider screen holds a non-empty provider list, its
\* cursor is the index of one of the loaded providers: 0 <= cursor < length.
C32_ProviderCursorInRange ==
  pv.providers # <<>> => (0 <= pv.cursor /\ pv.cursor < Len(pv.providers))

\* C33: dismiss is called at most once on a wizard, and a wizard whose login
\* thread has ended is no longer open: the end of the login command, by its
\* return or by its timeout, has dismissed it.
C33_OAuthDismissedOnce ==
  /\ wz.dismissals <= 1
  /\ wz.thread \in {"done", "failed"} => ~wz.open

====
